---- MODULE Spec2Model ----
(***************************************************************************)
(* A model of the ergo runtime: the script loader (ergo_script base/load), *)
(* the content-addressed store (grease runtime/store) and the IntoTyped    *)
(* trait registrations (ergo_runtime traits/into).                         *)
(***************************************************************************)
EXTENDS Integers, Sequences, FiniteSets, TLC

VARIABLES
    \* The loader (LoadData and the load_script calls in progress).
    body,        \* script file -> the path its body loads, or NoLoad
    loading,     \* LoadData.loading: Vec<PathBuf>
    load_cache,  \* LoadData.load_cache: BTreeMap<PathBuf, Source<Value>>
    stack,       \* task -> its chain of load_script calls, outermost first
    evals,       \* script file -> number of times it was parsed and evaluated
    calls,       \* number of root calls so far
    lastRet,     \* the load_script call that returned last
    \* Script path resolution.
    fs,           \* search directory -> [ext, exact]: the chains of the name
    working_dir,  \* which directory the last call searched first
    rpc,          \* "input", "resolved" or "probed"
    resolved,     \* result of resolve_script_path
    probe,        \* [dir, try_add_extension, result] of script_path_exists
    \* The store.
    files,        \* store item -> "absent", "empty" or "data": its file on disk
    dirs,         \* the store items whose directory exists on disk
    writable,     \* the store items with an open ItemContent that can be written
    lastOp,       \* the last call on an Item
    vid,          \* the identity passed to Item::value_id
    vitem,        \* what that call returned
    \* The trait registry.
    memo,         \* (type, IntoTyped target) -> the implementation found, once looked up
    lastInto,     \* the last conversion: [from, to, out]
    \* The standard path functions.
    pvalues,      \* the values built so far, evaluated: [type, id, content]
    pcalls,       \* number of path function calls so far
    \* value_by_content.
    cin,          \* the two values passed to value_by_content
    cout,         \* what it returned for each, NotRun before the call
    \* Stored for Map.
    smap,         \* the Map: a set of entries [k, v] with keys of distinct identities
    sstore,       \* the store: identity -> the value written under it, or NoValue
    sitem,        \* the item put wrote: [state, ids]
    sgot,         \* what get returned: [ok, entries]
    \* Dynamic bindings.
    dparent,      \* the dynamic scope in which the array of siblings is evaluated
    dstack,       \* sibling -> its dynamic:eval calls in progress: [entries, scope]
    dget,         \* the last evaluation of a dynamic:get value: [sib, key, value, at]
    \* Error output.
    eerr,         \* the error the run ended with
    elimit,       \* the configured limit of contexts, an Option<usize>
    eout,         \* the lines written to stderr, <<>> before the error is displayed
    \* std:match.
    mvalue,       \* the value matched, after ctx.eval: its type is known
    mbindings,    \* the array of cases, each [binds, body]
    mret,         \* what the match returned: [kind, case, error]
    mtried,       \* the indices of the bindings bound with the value, in order
    meval,        \* the outcome of evaluating the returned value
    \* std:value:merge.
    mga,          \* the first argument, a
    mgb,          \* the second argument, b
    mgflag,       \* whether the keyed argument array-merge is present
    mgout,        \* the value merge returned, NotMerged before the call
    \* Function calls and their arguments (so_runtime).
    apassed,      \* the arguments the call was made with
    aargs,        \* the FunctionArguments of the call: what is not consumed yet
    aop,          \* what was called: "none", "unused_arguments" or "apply_value"
    aret,         \* what it returned: Ok, or Err with its errors
    adrop,        \* the outcome of dropping the FunctionArguments
    \* std:io:stdout.
    wpc,          \* stdout value -> where its evaluation is
    wres,         \* stdout value -> its result: "none", "Ok" or "Err"
    stdout_mutex, \* the holder of STDOUT_MUTEX, NoHolder when it is free
    log_paused,   \* the number of pause guards of the log that are alive
    \* std:collection:fold.
    fvals,        \* the array folded over
    ffails,       \* the positions of the elements for which a call of f fails
    fpos,         \* the number of elements the fold has gone through
    facc,         \* the accumulator: the result of the chain so far
    fcalls,       \* the calls of f made, in order: [acc, elem]
    fret,         \* what the fold returned, NoFoldRet before
    \* The logger at the end of run().
    lalive,       \* whether the logger (the Arc's content) still exists
    lstrong,      \* the strong count of the Arc of the logger
    llock,        \* the holder of the logger's Mutex, NoThread when free
    lpc,          \* where run() is: "loop", "dropped" or "done"
    lthread,      \* pool thread -> where its logging call is
    lcalls,       \* the number of logging calls started
    lnone,        \* the number of logging calls that found no logger
    lout          \* what reached the terminal, in order

loaderVars == <<body, loading, load_cache, stack, evals, calls, lastRet>>
resolveVars == <<fs, working_dir, rpc, resolved, probe>>
storeVars == <<files, dirs, writable, lastOp, vid, vitem>>
traitsVars == <<memo, lastInto>>
pathVars == <<pvalues, pcalls>>
contentVars == <<cin, cout>>
storedVars == <<smap, sstore, sitem, sgot>>
dynamicVars == <<dparent, dstack, dget>>
errorVars == <<eerr, elimit, eout>>
matchVars == <<mvalue, mbindings, mret, mtried, meval>>
mergeVars == <<mga, mgb, mgflag, mgout>>
argsVars == <<apassed, aargs, aop, aret, adrop>>
stdoutVars == <<wpc, wres, stdout_mutex, log_paused>>
foldVars == <<fvals, ffails, fpos, facc, fcalls, fret>>
loggerVars == <<lalive, lstrong, llock, lpc, lthread, lcalls, lnone, lout>>
vars == <<loaderVars, resolveVars, storeVars, traitsVars, pathVars, contentVars, storedVars, dynamicVars, errorVars, matchVars, mergeVars, argsVars, stdoutVars, foldVars, loggerVars>>

\* What the loader's actions leave alone.
notLoader == <<resolveVars, storeVars, traitsVars, pathVars, contentVars, storedVars, dynamicVars, errorVars, matchVars, mergeVars, argsVars, stdoutVars, foldVars, loggerVars>>
\* What path resolution leaves alone.
notResolve == <<loaderVars, storeVars, traitsVars, pathVars, contentVars, storedVars, dynamicVars, errorVars, matchVars, mergeVars, argsVars, stdoutVars, foldVars, loggerVars>>
\* What the store's operations leave alone.
notStore == <<loaderVars, resolveVars, traitsVars, pathVars, contentVars, storedVars, dynamicVars, errorVars, matchVars, mergeVars, argsVars, stdoutVars, foldVars, loggerVars>>
\* What the trait registry's operations leave alone.
notTraits == <<loaderVars, resolveVars, storeVars, pathVars, contentVars, storedVars, dynamicVars, errorVars, matchVars, mergeVars, argsVars, stdoutVars, foldVars, loggerVars>>
\* What the path functions leave alone.
notPath == <<loaderVars, resolveVars, storeVars, traitsVars, contentVars, storedVars, dynamicVars, errorVars, matchVars, mergeVars, argsVars, stdoutVars, foldVars, loggerVars>>
\* What value_by_content leaves alone.
notContent == <<loaderVars, resolveVars, storeVars, traitsVars, pathVars, storedVars, dynamicVars, errorVars, matchVars, mergeVars, argsVars, stdoutVars, foldVars, loggerVars>>
\* What Stored::put and Stored::get leave alone.
notStored == <<loaderVars, resolveVars, storeVars, traitsVars, pathVars, contentVars, dynamicVars, errorVars, matchVars, mergeVars, argsVars, stdoutVars, foldVars, loggerVars>>
\* What the dynamic binding functions leave alone.
notDynamic == <<loaderVars, resolveVars, storeVars, traitsVars, pathVars, contentVars, storedVars, errorVars, matchVars, mergeVars, argsVars, stdoutVars, foldVars, loggerVars>>
\* What the display of errors leaves alone.
notError == <<loaderVars, resolveVars, storeVars, traitsVars, pathVars, contentVars, storedVars, dynamicVars, matchVars, mergeVars, argsVars, stdoutVars, foldVars, loggerVars>>
\* What std:match leaves alone.
notMatch == <<loaderVars, resolveVars, storeVars, traitsVars, pathVars, contentVars, storedVars, dynamicVars, errorVars, mergeVars, argsVars, stdoutVars, foldVars, loggerVars>>
\* What std:value:merge leaves alone.
notMerge == <<loaderVars, resolveVars, storeVars, traitsVars, pathVars, contentVars, storedVars, dynamicVars, errorVars, matchVars, argsVars, stdoutVars, foldVars, loggerVars>>
\* What a function call leaves alone.
notArgs == <<loaderVars, resolveVars, storeVars, traitsVars, pathVars, contentVars, storedVars, dynamicVars, errorVars, matchVars, mergeVars, stdoutVars, foldVars, loggerVars>>
\* What the evaluation of stdout values leaves alone.
notStdout == <<loaderVars, resolveVars, storeVars, traitsVars, pathVars, contentVars, storedVars, dynamicVars, errorVars, matchVars, mergeVars, argsVars, foldVars, loggerVars>>
\* What a fold leaves alone.
notFold == <<loaderVars, resolveVars, storeVars, traitsVars, pathVars, contentVars, storedVars, dynamicVars, errorVars, matchVars, mergeVars, argsVars, stdoutVars, loggerVars>>
\* What the logger leaves alone.
notLogger == <<loaderVars, resolveVars, storeVars, traitsVars, pathVars, contentVars, storedVars, dynamicVars, errorVars, matchVars, mergeVars, argsVars, stdoutVars, foldVars>>

(***************************************************************************)
(* Bounds of the model.                                                    *)
(***************************************************************************)
\* load_script calls made by the host or by other values (root calls).
MaxCalls == 2
\* Depth of nested load_script calls in one load chain.
MaxDepth == 3

(***************************************************************************)
(* The loader: ergo_script/src/base/load.rs                                *)
(***************************************************************************)
\* Tasks of the thread pool that call load_script.
Tasks == {"t1", "t2"}
\* Canonical paths of the script files on disk.
Scripts == {"a", "b"}
\* Paths as passed to load_script: the canonical ones and another spelling of
\* script a (through a symbolic link or a `..` component).
Spellings == {"a", "b", "a_alt"}
\* A script body without a load.
NoLoad == "-"


\* std::path::Path::canonicalize on the paths of the model.
canonicalize(p) == IF p = "a_alt" THEN "a" ELSE p

None == [kind |-> "none", path |-> "", n |-> 0]
\* The error value of line 71-75: "already loading <path>".
AlreadyLoading(p) == [kind |-> "already loading", path |-> p, n |-> 0]
\* The value of one evaluation of script c (the n-th), Ok or Err alike (line 138-139).
Loaded(c, n, ok) == [kind |-> IF ok THEN "loaded" ELSE "error", path |-> c, n |-> n]

NoRet == [path |-> "", seen |-> None, value |-> None]

NewFrame(p) ==
    [path |-> p, pc |-> "check", called |-> FALSE, n |-> 0,
     seen |-> load_cache[canonicalize(p)]]

Top(t) == stack[t][Len(stack[t])]

SetTop(t, f) == [stack EXCEPT ![t] = [@ EXCEPT ![Len(@)] = f]]

\* The list left as it is.
PopLoadingSkipped(l) == l

\* Vec::pop of line 141: removes the last entry, if any.
PopLoading(l) == IF Len(l) = 0 THEN l ELSE SubSeq(l, 1, Len(l) - 1)

\* The cycle check of lines 69-77: the path as passed, compared to each entry.
IsLoading(l, p) == \E i \in 1..Len(l) : l[i] = p

\* A load_script call returns v to its caller.
Return(t, v) ==
    /\ stack' = [stack EXCEPT ![t] = SubSeq(@, 1, Len(@) - 1)]
    /\ lastRet' = [path |-> Top(t).path, seen |-> Top(t).seen, value |-> v]

LoaderInit ==
    /\ body \in [Scripts -> Spellings \cup {NoLoad}]
    /\ loading = <<>>
    /\ load_cache = [c \in Scripts |-> None]
    /\ stack = [t \in Tasks |-> <<>>]
    /\ evals = [c \in Scripts |-> 0]
    /\ calls = 0
    /\ lastRet = NoRet

LoaderIdle ==
    /\ body = [c \in Scripts |-> NoLoad]
    /\ loading = <<>>
    /\ load_cache = [c \in Scripts |-> None]
    /\ stack = [t \in Tasks |-> <<>>]
    /\ evals = [c \in Scripts |-> 0]
    /\ calls = 0
    /\ lastRet = NoRet

\* A task calls load_script(path) (the load, std and workspace functions).
Call(t, p) ==
    /\ stack[t] = <<>>
    /\ calls < MaxCalls
    /\ stack' = [stack EXCEPT ![t] = <<NewFrame(p)>>]
    /\ calls' = calls + 1
    /\ UNCHANGED <<body, loading, load_cache, evals, lastRet>>
    /\ UNCHANGED notLoader

\* load_script, lines 69-77: the check whether path is already being loaded.
Check(t) ==
    /\ stack[t] # <<>>
    /\ Top(t).pc = "check"
    /\ IF IsLoading(loading, Top(t).path)
       THEN Return(t, AlreadyLoading(Top(t).path))
       ELSE /\ stack' = SetTop(t, [Top(t) EXCEPT !.pc = "lookup"])
            /\ UNCHANGED lastRet
    /\ UNCHANGED <<body, loading, load_cache, evals, calls>>
    /\ UNCHANGED notLoader

\* load_script, lines 80-99 and 144: canonicalize, look the path up in the cache
\* and, on a miss, push it onto loading (both under the cache lock).
Lookup(t) ==
    /\ stack[t] # <<>>
    /\ Top(t).pc = "lookup"
    /\ LET c == canonicalize(Top(t).path) IN
       IF load_cache[c] # None
       THEN /\ Return(t, load_cache[c])
            /\ UNCHANGED <<loading, evals>>
       ELSE /\ loading' = Append(loading, c)
            /\ evals' = [evals EXCEPT ![c] = @ + 1]
            /\ stack' = SetTop(t, [Top(t) EXCEPT !.pc = "eval", !.n = evals[c] + 1])
            /\ UNCHANGED lastRet
    /\ UNCHANGED <<body, load_cache, calls>>
    /\ UNCHANGED notLoader

\* load_script, lines 103-114: the script is evaluated, and its body calls
\* load_script (through the load function, lines 200-208).
NestedCall(t) ==
    /\ stack[t] # <<>>
    /\ Top(t).pc = "eval"
    /\ ~Top(t).called
    /\ body[canonicalize(Top(t).path)] # NoLoad
    /\ Len(stack[t]) < MaxDepth
    /\ stack' = [stack EXCEPT ![t] =
                    Append([@ EXCEPT ![Len(@)] = [Top(t) EXCEPT !.called = TRUE]],
                           NewFrame(body[canonicalize(Top(t).path)]))]
    /\ UNCHANGED <<body, loading, load_cache, evals, calls, lastRet>>
    /\ UNCHANGED notLoader

\* load_script, lines 136-142: the evaluation is over; its result (a value or
\* an error) is inserted into the cache, loading is popped, the value returned.
Store(t) ==
    /\ stack[t] # <<>>
    /\ Top(t).pc = "eval"
    /\ Top(t).called \/ body[canonicalize(Top(t).path)] = NoLoad
    /\ \E ok \in BOOLEAN :
         LET c == canonicalize(Top(t).path)
             val == Loaded(c, Top(t).n, ok)
         IN /\ load_cache' = [load_cache EXCEPT ![c] = val]
            /\ loading' = PopLoading(loading)
            /\ Return(t, val)
    /\ UNCHANGED <<body, evals, calls>>
    /\ UNCHANGED notLoader

\* LoadData::reset, lines 36-41: empties the loading list and the cache. It is
\* taken when no load_script call is in progress.
Reset ==
    /\ \A t \in Tasks : stack[t] = <<>>
    /\ loading' = <<>>
    /\ load_cache' = [c \in Scripts |-> None]
    /\ UNCHANGED <<body, stack, evals, calls, lastRet>>
    /\ UNCHANGED notLoader

LoaderNext ==
    \/ \E t \in Tasks, p \in Spellings : Call(t, p)
    \/ \E t \in Tasks : Check(t)
    \/ \E t \in Tasks : Lookup(t)
    \/ \E t \in Tasks : NestedCall(t)
    \/ \E t \in Tasks : Store(t)
    \/ Reset

\* The task is cancelled while its load_script call is suspended in
\* script.evaluate(ctx).await (line 111): the futures of its whole chain are
\* dropped.  load_script has no guard that runs on drop: the entries its calls
\* pushed onto loading stay.
Cancel(t) ==
    /\ stack[t] # <<>>
    /\ Top(t).pc = "eval"
    /\ stack' = [stack EXCEPT ![t] = <<>>]
    /\ UNCHANGED <<body, loading, load_cache, evals, calls, lastRet>>
    /\ UNCHANGED notLoader


(***************************************************************************)
(* Script path resolution: ergo_script/src/base/load.rs, lines 48-62 and   *)
(* 412-458.                                                                *)
(*                                                                         *)
(* What a search directory holds for one name is described by two chains,  *)
(* one for the name with the script extension appended (ext) and one for   *)
(* the exact name (exact).  A chain lists the kinds of the path itself, of *)
(* its DIR_NAME entry, of that entry's DIR_NAME entry and so on: <<>> is a *)
(* path that does not exist, <<"file">> a file, <<"dir", "file">> a        *)
(* directory holding a DIR_NAME file, <<"dir">> a directory without one.   *)
(***************************************************************************)
\* Levels of DIR_NAME entries below a candidate path.
MaxNest == 1

RECURSIVE ChainsOfLen(_)
ChainsOfLen(n) ==
    IF n = 1 THEN {<<"file">>, <<"dir">>}
    ELSE {<<"dir">> \o c : c \in ChainsOfLen(n - 1)}

Chains == {<<>>} \cup UNION {ChainsOfLen(n) : n \in 1..(MaxNest + 1)}

\* LoadData.load_path, in configured order.
load_path == <<"lp1", "lp2">>
\* The directory searched first: the given working directory ("wd"), or with
\* no working directory the current directory ("cwd"), which
\* std::env::current_dir may fail to give ("nocwd").
FirstDirs == {"wd", "cwd", "nocwd"}
SearchDirs == {"first", "lp1", "lp2"}

NoPath == [dir |-> "", via |-> "", depth |-> 0]


\* Path::exists, Path::is_dir and Path::is_file of the path at level k of chain e.
PathExists(e, k) == k <= Len(e)
PathIsDir(e, k) == k <= Len(e) /\ e[k] = "dir"
PathIsFile(e, k) == k <= Len(e) /\ e[k] = "file"

\* Lines 443-450: while p is a directory whose DIR_NAME entry exists, p is
\* that entry.
RECURSIVE DescendDirs(_, _)
DescendDirs(e, k) ==
    IF PathIsDir(e, k) /\ PathExists(e, k + 1) THEN DescendDirs(e, k + 1) ELSE k

\* Lines 417-441: the path with the extension appended if it exists, or else
\* the exact path if it exists.
CandidateSkipsExact(d, try_add_extension) ==
    IF try_add_extension /\ PathExists(fs[d].ext, 1) THEN "ext" ELSE "none"

Candidate(d, try_add_extension) ==
    IF try_add_extension /\ PathExists(fs[d].ext, 1) THEN "ext"
    ELSE IF PathExists(fs[d].exact, 1) THEN "exact" ELSE "none"

\* script_path_exists(name, try_add_extension)(path), lines 412-458.
script_path_exists(d, try_add_extension) ==
    LET via == Candidate(d, try_add_extension) IN
    IF via = "none" THEN NoPath
    ELSE LET k == DescendDirs(fs[d][via], 1) IN
         IF PathIsFile(fs[d][via], k)
         THEN [dir |-> d, via |-> via, depth |-> k]
         ELSE NoPath

\* The match of the last entry, from entry i on, that has one.
FindInLoadPathLast(i) ==
    IF \E j \in i..Len(load_path) : script_path_exists(load_path[j], TRUE) # NoPath
    THEN LET j == CHOOSE j \in i..Len(load_path) :
                    /\ script_path_exists(load_path[j], TRUE) # NoPath
                    /\ \A k \in (j + 1)..Len(load_path) :
                           script_path_exists(load_path[k], TRUE) = NoPath
         IN script_path_exists(load_path[j], TRUE)
    ELSE NoPath

\* Line 61: load_path.iter().find_map(get), from entry i on.
RECURSIVE FindInLoadPath(_)
FindInLoadPath(i) ==
    IF i > Len(load_path) THEN NoPath
    ELSE IF script_path_exists(load_path[i], TRUE) # NoPath
         THEN script_path_exists(load_path[i], TRUE)
         ELSE FindInLoadPath(i + 1)

\* Lines 57-60: the match in the working directory or the current directory.
FindInFirst(w) ==
    IF w = "nocwd" THEN NoPath ELSE script_path_exists("first", TRUE)

\* LoadData::resolve_script_path, lines 51-62.
resolve_script_path(w) ==
    IF FindInFirst(w) # NoPath THEN FindInFirst(w) ELSE FindInLoadPath(1)

ResolveInit ==
    /\ fs \in [SearchDirs -> [ext : Chains, exact : Chains]]
    /\ working_dir = "wd"
    /\ rpc = "input"
    /\ resolved = NoPath
    /\ probe = [dir |-> "", try_add_extension |-> FALSE, result |-> NoPath]

ResolveIdle ==
    /\ fs = [d \in SearchDirs |-> [ext |-> <<>>, exact |-> <<>>]]
    /\ working_dir = "wd"
    /\ rpc = "input"
    /\ resolved = NoPath
    /\ probe = [dir |-> "", try_add_extension |-> FALSE, result |-> NoPath]

\* A call of resolve_script_path (the load and std functions, lines 200, 234).
Resolve(w) ==
    /\ rpc = "input"
    /\ rpc' = "resolved"
    /\ working_dir' = w
    /\ resolved' = resolve_script_path(w)
    /\ UNCHANGED <<fs, probe>>
    /\ UNCHANGED notResolve

\* A call of script_path_exists for one directory: with the extension tried
\* (line 56) or not (the workspace lookup, line 299).
Probe(d, try_add_extension) ==
    /\ rpc = "input"
    /\ rpc' = "probed"
    /\ probe' = [dir |-> d, try_add_extension |-> try_add_extension,
                 result |-> script_path_exists(d, try_add_extension)]
    /\ UNCHANGED <<fs, working_dir, resolved>>
    /\ UNCHANGED notResolve

ResolveNext ==
    \/ \E w \in FirstDirs : Resolve(w)
    \/ \E d \in SearchDirs, x \in BOOLEAN : Probe(d, x)

(***************************************************************************)
(* The store: grease/src/runtime/store.rs                                  *)
(***************************************************************************)
\* Hexadecimal digits of a 128-bit identity.
HexDigits == 32

\* Items of the store that the operations are called on.
Items == {"i1", "i2"}

\* The identities passed to value_id, as their 32 hexadecimal digits, most
\* significant first: every number of leading zero digits, then a digit x,
\* then digits that follow from s.
IdOf(lz, x, s) ==
    [i \in 1..HexDigits |->
        IF i <= lz THEN 0 ELSE IF i = lz + 1 THEN x ELSE (s + 3 * i) % 16]

Ids == {IdOf(lz, x, s) : lz \in 0..HexDigits, x \in {1, 15}, s \in {0, 7}}

NoId == <<>>
NoItem == [ok |-> FALSE, sub |-> "", d1 |-> <<>>, d2 |-> <<>>, item |-> <<>>]
NoOp == [op |-> "none", item |-> "", absent |-> FALSE, ok |-> FALSE]

\* Number of leading zero digits of id.
RECURSIVE LeadingZeros(_, _)
LeadingZeros(id, i) ==
    IF i > Len(id) THEN Len(id)
    ELSE IF id[i] # 0 THEN i - 1 ELSE LeadingZeros(id, i + 1)

\* format!("{:x}", id), line 118: the digits without leading zeros ("0" for 0).
FormatHex(id) ==
    IF LeadingZeros(id, 1) = Len(id) THEN <<0>>
    ELSE SubSeq(id, LeadingZeros(id, 1) + 1, Len(id))

\* Item::value_id, lines 113-126: the item under `<item>-v`, then id[..2], then
\* id[2..4], named id[4..]; a slice beyond the end of the string panics.
value_id(id) ==
    LET h == FormatHex(id) IN
    IF Len(h) < 4 THEN [NoItem EXCEPT !.sub = "-v"]
    ELSE [ok |-> TRUE, sub |-> "-v", d1 |-> SubSeq(h, 1, 2), d2 |-> SubSeq(h, 3, 4),
          item |-> SubSeq(h, 5, Len(h))]

\* OpenOptions::open on an item's file: the state of the file afterwards.
\* write(), line 137: write, create, truncate.
OpenedForWrite(f) == "empty"
\* read_existing(), line 147: read only.
OpenedForReadExisting(f) == f
\* read(), line 142: read, write, create.
OpenedForRead(f) == IF f = "absent" THEN "empty" ELSE f

StoreInit ==
    /\ files = [i \in Items |-> "absent"]
    /\ dirs = {}
    /\ writable = {}
    /\ lastOp = NoOp
    /\ vid \in Ids
    /\ vitem = NoItem

StoreIdle ==
    /\ files = [i \in Items |-> "absent"]
    /\ dirs = {}
    /\ writable = {}
    /\ lastOp = NoOp
    /\ vid = NoId
    /\ vitem = NoItem

\* Item::value_id(vid), lines 113-126.
ValueId ==
    /\ vitem = NoItem
    /\ vitem' = value_id(vid)
    /\ UNCHANGED <<files, dirs, writable, lastOp, vid>>
    /\ UNCHANGED notStore

\* Item::exists, lines 129-131; path() creates the item's directory (line 164).
ItemExists(i) ==
    /\ dirs' = dirs \cup {i}
    /\ lastOp' = [op |-> "exists", item |-> i, absent |-> files[i] = "absent",
                  ok |-> files[i] # "absent"]
    /\ UNCHANGED <<files, writable, vid, vitem>>
    /\ UNCHANGED notStore

\* Item::write, lines 136-138, through open, lines 151-156.
ItemWrite(i) ==
    /\ dirs' = dirs \cup {i}
    /\ files' = [files EXCEPT ![i] = OpenedForWrite(@)]
    /\ writable' = writable \cup {i}
    /\ lastOp' = [op |-> "write", item |-> i, absent |-> files[i] = "absent",
                  ok |-> TRUE]
    /\ UNCHANGED <<vid, vitem>>
    /\ UNCHANGED notStore

\* Item::read, lines 141-143, through open, lines 151-156.
ItemRead(i) ==
    /\ dirs' = dirs \cup {i}
    /\ files' = [files EXCEPT ![i] = OpenedForRead(@)]
    /\ writable' = writable \cup {i}
    /\ lastOp' = [op |-> "read", item |-> i, absent |-> files[i] = "absent",
                  ok |-> TRUE]
    /\ UNCHANGED <<vid, vitem>>
    /\ UNCHANGED notStore

\* Item::read_existing, lines 146-148, through open, lines 151-156: the open
\* fails when the file does not exist.
ItemReadExisting(i) ==
    /\ dirs' = dirs \cup {i}
    /\ files' = [files EXCEPT ![i] = OpenedForReadExisting(@)]
    /\ lastOp' = [op |-> "read_existing", item |-> i, absent |-> files[i] = "absent",
                  ok |-> files[i] # "absent"]
    /\ UNCHANGED <<writable, vid, vitem>>
    /\ UNCHANGED notStore

\* io::Write for ItemContent, lines 176-184: bytes are written to an open item.
ItemContentWrite(i) ==
    /\ i \in writable
    /\ files' = [files EXCEPT ![i] = "data"]
    /\ lastOp' = [op |-> "content_write", item |-> i, absent |-> FALSE, ok |-> TRUE]
    /\ UNCHANGED <<dirs, writable, vid, vitem>>
    /\ UNCHANGED notStore

\* An ItemContent is dropped: its file is closed.
ItemContentDrop(i) ==
    /\ i \in writable
    /\ writable' = writable \ {i}
    /\ UNCHANGED <<files, dirs, lastOp, vid, vitem>>
    /\ UNCHANGED notStore

StoreNext ==
    \/ ValueId
    \/ \E i \in Items : ItemExists(i)
    \/ \E i \in Items : ItemWrite(i)
    \/ \E i \in Items : ItemRead(i)
    \/ \E i \in Items : ItemReadExisting(i)
    \/ \E i \in Items : ItemContentWrite(i)
    \/ \E i \in Items : ItemContentDrop(i)

(***************************************************************************)
(* The trait registry and the IntoTyped implementations:                   *)
(* ergo_runtime/src/traits/into.rs, ergo_runtime/src/types/unset.rs.       *)
(***************************************************************************)
Types == {"Unset", "Bool", "String", "Path"}
\* The T of the IntoTyped<T> traits that are looked up.
Targets == {"Bool", "String"}

BoolValue(b) == [type |-> "Bool", data |-> IF b THEN "true" ELSE "false"]
ErrorValue(m) == [type |-> "Error", data |-> m]
Values ==
    {[type |-> "Unset", data |-> "unset"], BoolValue(TRUE), BoolValue(FALSE),
     [type |-> "String", data |-> "p"], [type |-> "Path", data |-> "p"]}

Unknown == "unknown"
Miss == "miss"
NoInto == [from |-> ErrorValue(""), to |-> "", out |-> ErrorValue("")]

\* into.rs, lines 104-109: Anything -> Bool (true).
to_bool(v) == BoolValue(TRUE)

\* into.rs, lines 121-126: the identity.
id_f(v) == v

\* into.rs, lines 144-148, and unset.rs, lines 29-33 and 42: Unset -> Bool (false).
unset_into_bool(v) == BoolValue(FALSE)

\* into.rs, lines 151-155: Path -> String.
path_into_string(v) == [type |-> "String", data |-> v.data]

\* into.rs, lines 110-116: the generator registered for the trait
\* IntoTyped<Bool>, which gives to_bool for every type.
to_bool_generator(tp, trt) == IF trt = "Bool" THEN "to_bool" ELSE Miss

\* into.rs, lines 127-140: the generator id, which gives id_f for IntoTyped<T>
\* of type T.
id(tp, trt) == IF tp = trt THEN "id_f" ELSE Miss

\* The registrations without the one for Unset.
ImplsWithoutUnset(tp, trt) ==
    IF tp = "Path" /\ trt = "String" THEN "path_into_string" ELSE Miss

\* The implementations registered for a type: into.rs, lines 144-155, and
\* unset.rs, line 42.
Impls(tp, trt) ==
    IF tp = "Unset" /\ trt = "Bool" THEN "unset_into_bool"
    ELSE IF tp = "Path" /\ trt = "String" THEN "path_into_string"
    ELSE Miss

\* Traits::get_impl: the implementation registered for the type or, on a miss,
\* what the generators by trait and then the generators by type give, the first
\* to give one; Miss when none does.
get_impl(tp, trt) ==
    IF memo[<<tp, trt>>] # Unknown THEN memo[<<tp, trt>>]
    ELSE IF Impls(tp, trt) # Miss THEN Impls(tp, trt)
    ELSE IF to_bool_generator(tp, trt) # Miss THEN to_bool_generator(tp, trt)
    ELSE id(tp, trt)

\* IntoTypedImpl::into_typed: the function of the implementation.
into_typed(impl, v) ==
    CASE impl = "to_bool" -> to_bool(v)
      [] impl = "id_f" -> id_f(v)
      [] impl = "unset_into_bool" -> unset_into_bool(v)
      [] impl = "path_into_string" -> path_into_string(v)

\* into::<T>(ctx, v), into.rs, lines 57-99.
into(T, v) ==
    LET t == get_impl(v.type, T) IN
    IF t = Miss THEN ErrorValue("cannot convert")
    ELSE IF into_typed(t, v).type # T THEN ErrorValue("bad IntoTyped implementation")
    ELSE into_typed(t, v)

TraitsInit ==
    /\ memo = [k \in Types \X Targets |-> Unknown]
    /\ lastInto = NoInto

\* A lookup of IntoTyped<trt> for type tp; its result is kept.
GetImpl(tp, trt) ==
    /\ memo' = [memo EXCEPT ![<<tp, trt>>] = get_impl(tp, trt)]
    /\ UNCHANGED lastInto
    /\ UNCHANGED notTraits

\* A conversion of v into T.
Into(v, T) ==
    /\ memo' = [memo EXCEPT ![<<v.type, T>>] = get_impl(v.type, T)]
    /\ lastInto' = [from |-> v, to |-> T, out |-> into(T, v)]
    /\ UNCHANGED notTraits

TraitsNext ==
    \/ \E tp \in Types, trt \in Targets : GetImpl(tp, trt)
    \/ \E v \in Values, T \in Targets : Into(v, T)

(***************************************************************************)
(* The standard path functions: ergo_std/src/path.rs                       *)
(*                                                                         *)
(* A value is [type, id, content]: its identity, [tag, deps], is the       *)
(* constant tag and the identities of the dependencies it was made from,   *)
(* and its content, what it evaluates to, is a sequence of strings: the    *)
(* components of a path (the first one "/" when it is absolute), the one   *)
(* string of a String, the elements of an Array.                           *)
(***************************************************************************)
\* Path function calls made.
MaxPathCalls == 3

\* What rand::random gives (line 45).
Randoms == {"r1", "r2"}

\* A constant String value: its identity is that of its type and content.
StringValue(x) ==
    [type |-> "String", id |-> [tag |-> x, deps |-> <<>>], content |-> <<x>>]

Literals == {StringValue("a"), StringValue("b")}

\* std::path::PathBuf::push: an absolute path replaces the path.
Push(path, c) == IF c # <<>> /\ c[1] = "/" THEN c ELSE path \o c

\* Path::strip_prefix: the rest of path after base, when base is a prefix.
IsPrefix(base, path) ==
    Len(base) <= Len(path) /\ SubSeq(path, 1, Len(base)) = base

\* new_value, lines 36-51: make_value!(["path new"]) with the path of a store
\* item of a random name.
new_value(r) ==
    [type |-> "Path", id |-> [tag |-> "path new", deps |-> <<>>],
     content |-> <<"/", "path-new", r>>]

\* join_fn, lines 67-109: make_value!(["path join", ^deps]) pushing every
\* argument.
RECURSIVE JoinContent(_, _)
JoinContent(args, path) ==
    IF args = <<>> THEN path
    ELSE JoinContent(Tail(args), Push(path, Head(args).content))

join_fn(args) ==
    [type |-> "Path",
     id |-> [tag |-> "path join", deps |-> [i \in 1..Len(args) |-> args[i].id]],
     content |-> JoinContent(args, <<>>)]

\* split_fn, lines 111-137: make_value!(["path split", to_split]) of the
\* Array of the components.
split_fn(to_split) ==
    [type |-> "Array", id |-> [tag |-> "path split", deps |-> <<to_split.id>>],
     content |-> to_split.content]

\* vals.len() as a dependency: the identity of the constant i - 1.
IndexId(i) == [tag |-> <<"0", "1", "2", "3", "4", "5", "6", "7">>[i], deps |-> <<>>]

\* split_fn, lines 128-131: element i of the array, a constant String with
\* depends!["path split", to_split, vals.len()].
SplitElement(to_split, i) ==
    [type |-> "String",
     id |-> [tag |-> "path split", deps |-> <<to_split.id, IndexId(i)>>],
     content |-> <<to_split.content[i]>>]

\* relative_fn, lines 139-163: make_value!(["path relative", base, path]) of
\* path with the prefix base stripped, an error when base is no prefix.
relative_fn(base, path) ==
    [type |-> IF IsPrefix(base.content, path.content) THEN "Path" ELSE "Error",
     id |-> [tag |-> "path relative", deps |-> <<base.id, path.id>>],
     content |-> IF IsPrefix(base.content, path.content)
                 THEN SubSeq(path.content, Len(base.content) + 1, Len(path.content))
                 ELSE <<"prefix not found">>]

PathInit ==
    /\ pvalues = Literals
    /\ pcalls = 0

Components == {v \in pvalues : v.type \in {"String", "Path"}}
Paths == {v \in pvalues : v.type = "Path"}

\* path new: the value is built and evaluated.
PathNew ==
    /\ pcalls < MaxPathCalls
    /\ pcalls' = pcalls + 1
    /\ \E r \in Randoms : pvalues' = pvalues \cup {new_value(r)}
    /\ UNCHANGED notPath

\* path join, with one or two arguments.
PathJoin ==
    /\ pcalls < MaxPathCalls
    /\ pcalls' = pcalls + 1
    /\ \E args \in {<<a>> : a \in Components} \cup (Components \X Components) :
          pvalues' = pvalues \cup {join_fn(args)}
    /\ UNCHANGED notPath

\* path split: the array and its elements.
PathSplit ==
    /\ pcalls < MaxPathCalls
    /\ pcalls' = pcalls + 1
    /\ \E p \in Paths :
          pvalues' = pvalues \cup {split_fn(p)}
                        \cup {SplitElement(p, i) : i \in 1..Len(p.content)}
    /\ UNCHANGED notPath

\* path relative.
PathRelative ==
    /\ pcalls < MaxPathCalls
    /\ pcalls' = pcalls + 1
    /\ \E base, p \in Paths : pvalues' = pvalues \cup {relative_fn(base, p)}
    /\ UNCHANGED notPath

PathNext == PathNew \/ PathJoin \/ PathSplit \/ PathRelative

(***************************************************************************)
(* value_by_content: ergo_runtime/src/traits/value_by_content.rs           *)
(*                                                                         *)
(* A value is [type, id, content, elems]: content is the data of a String  *)
(* or a Path, elems the elements of an Array, in order, or the entries of  *)
(* a Map, entry i being the value of key i or Absent.  An identity is a    *)
(* sequence of strings: the type and the dependencies it is the hash of.   *)
(***************************************************************************)
\* Elements of an Array, keys of a Map.
MaxElems == 2

Absent == [type |-> "absent", id |-> <<>>, content |-> "", elems |-> <<>>]
NotRun == [type |-> "not run", id |-> <<>>, content |-> "", elems |-> <<>>]
ContentError(m) == [type |-> "Error", id |-> <<"Error", m>>, content |-> m, elems |-> <<>>]

\* The types ValueByContent is implemented for by add_impl, lines 52-55.
ByContentTypes == {"String", "Path"}

\* Values with one of two identities each: strings of two contents, and a
\* function, of a type without the trait.
Leaves ==
    {[type |-> "String", id |-> <<i>>, content |-> c, elems |-> <<>>] :
        i \in {"i1", "i2"}, c \in {"x", "y"}}
    \cup {[type |-> "Function", id |-> <<"i3">>, content |-> "f", elems |-> <<>>]}

ArraysOf(i) ==
    {[type |-> "Array", id |-> <<i>>, content |-> "", elems |-> e] :
        e \in UNION {[1..n -> Leaves] : n \in 0..MaxElems}}

MapsOf(i) ==
    {[type |-> "Map", id |-> <<i>>, content |-> "", elems |-> e] :
        e \in [1..MaxElems -> Leaves \cup {Absent}]}

\* The values passed with identity i.
InputsOf(i) ==
    {[type |-> "String", id |-> <<i>>, content |-> c, elems |-> <<>>] : c \in {"x", "y"}}
    \cup ArraysOf(i) \cup MapsOf(i)

\* The dependencies of an Array or a Map (map.rs, lines 17-21): the key and
\* the identity of every entry, in order.
RECURSIVE EntryDeps(_, _)
EntryDeps(elems, i) ==
    IF i > Len(elems) THEN <<>>
    ELSE (IF elems[i] = Absent THEN <<>>
          ELSE <<"(">> \o elems[i].id \o <<")">>) \o <<",">> \o EntryDeps(elems, i + 1)

\* Value::from(v).set_dependencies(depends![data]) with the input's identity
\* kept.
LeafByIdentity(v) == v

\* add_impl, lines 21-26: the value with its data as its only dependency.
LeafByContent(v) == [v EXCEPT !.id = <<v.type, v.content>>]

\* value_by_content, lines 32-49, and the implementations of lines 52-93.
RECURSIVE value_by_content(_)
value_by_content(v) ==
    IF v.type \in ByContentTypes THEN LeafByContent(v)
    ELSE IF v.type \in {"Array", "Map"}
    THEN LET inner_vals == [i \in 1..Len(v.elems) |->
                               IF v.elems[i] = Absent THEN Absent
                               ELSE value_by_content(v.elems[i])]
         IN IF \E i \in 1..Len(v.elems) : inner_vals[i].type = "Error"
            THEN ContentError("errors")
            ELSE [type |-> v.type, id |-> <<v.type>> \o EntryDeps(inner_vals, 1),
                  content |-> "", elems |-> inner_vals]
    ELSE ContentError("no value by content trait")

\* Two values of one type, with identities of their own.
ContentInit ==
    /\ \E a \in InputsOf("i1"), b \in InputsOf("i2") :
          a.type = b.type /\ cin = <<a, b>>
    /\ cout = <<NotRun, NotRun>>

ContentIdle ==
    /\ cin = <<NotRun, NotRun>>
    /\ cout = <<NotRun, NotRun>>

\* value_by_content is called on input k.
ByContent(k) ==
    /\ cout[k] = NotRun
    /\ cout' = [cout EXCEPT ![k] = value_by_content(cin[k])]
    /\ UNCHANGED cin
    /\ UNCHANGED notContent

ContentNext == \E k \in {1, 2} : ByContent(k)

(***************************************************************************)
(* Stored for Map: ergo_runtime/src/types/map.rs, lines 86-114.            *)
(***************************************************************************)
\* Identities of the values that are keys and values of the maps.
StoredIds == 1..4
KeyIds == 1..3

\* The value of identity i: its data follow from its identity.
StoredValue(i) == [id |-> i, data |-> <<"data", i>>]
NoValue == [id |-> 0, data |-> <<>>]

\* The values of a type without Stored: write_to_store fails for them.
NotStorable == {StoredValue(4)}

NoEntries == [ok |-> FALSE, entries |-> {}]
NoIds == [state |-> "none", ids |-> {}]

\* The maps: every choice of keys, each with a value.
Maps ==
    UNION {{{[k |-> StoredValue(i), v |-> StoredValue(f[i])] : i \in K} :
               f \in [K -> StoredIds]} : K \in SUBSET KeyIds}

\* put, lines 89-93, with every entry filed under its value's identity.
IdsByValue(m) == {<<e.v.id, e.v.id>> : e \in m}

\* put, lines 89-93: ids.insert(k.id(), v.id()) for every entry.
Ids_of(m) == {<<e.k.id, e.v.id>> : e \in m}

\* StoredContext::write_to_store: the value is kept under its identity.
write_to_store(st, x) == [st EXCEPT ![x.id] = x]

\* StoredContext::read_from_store: the value kept under the identity.
read_from_store(st, i) == st[i]

\* put, lines 90-96: from the entry of key identity i on, in the order of the
\* keys, the key and the value are written to the store; the first write that
\* fails ends the loop.
RECURSIVE PutFrom(_, _, _)
PutFrom(m, st, i) ==
    IF i \notin KeyIds THEN [st |-> st, ok |-> TRUE]
    ELSE IF \A e \in m : e.k.id # i THEN PutFrom(m, st, i + 1)
    ELSE LET e == CHOOSE x \in m : x.k.id = i IN
         IF e.k \in NotStorable THEN [st |-> st, ok |-> FALSE]
         ELSE IF e.v \in NotStorable
         THEN [st |-> write_to_store(st, e.k), ok |-> FALSE]
         ELSE PutFrom(m, write_to_store(write_to_store(st, e.k), e.v), i + 1)

StoredInit ==
    /\ smap \in Maps
    /\ sstore = [i \in StoredIds |-> NoValue]
    /\ sitem = NoIds
    /\ sgot = NoEntries

StoredIdle ==
    /\ smap = {}
    /\ sstore = [i \in StoredIds |-> NoValue]
    /\ sitem = NoIds
    /\ sgot = NoEntries

\* Stored::put, lines 87-99: fails, with nothing serialized, when a key or a
\* value cannot be written to the store.
StoredPut ==
    /\ sitem.state = "none"
    /\ sstore' = PutFrom(smap, sstore, 1).st
    /\ sitem' = IF PutFrom(smap, sstore, 1).ok
                THEN [state |-> "written", ids |-> Ids_of(smap)]
                ELSE [state |-> "failed", ids |-> {}]
    /\ UNCHANGED <<smap, sgot>>
    /\ UNCHANGED notStored

\* Stored::get, lines 101-113, on the item that put wrote.
StoredGet ==
    /\ sitem.state = "written"
    /\ ~sgot.ok
    /\ sgot' = [ok |-> TRUE,
                entries |-> {[k |-> read_from_store(sstore, p[1]),
                              v |-> read_from_store(sstore, p[2])] : p \in sitem.ids}]
    /\ UNCHANGED <<smap, sstore, sitem>>
    /\ UNCHANGED notStored

StoredNext == StoredPut \/ StoredGet

(***************************************************************************)
(* Dynamic bindings: ergo_std/src/value.rs, lines 183-224.                 *)
(*                                                                         *)
(* The elements of an array are sibling evaluations, run concurrently; each *)
(* is a nest of dynamic:eval calls around evaluations of dynamic:get       *)
(* values.  A bound value is [sib, depth, v]: which sibling's eval bound   *)
(* it, and at which depth of its nest.                                     *)
(***************************************************************************)
\* Depth of nested dynamic:eval calls in one sibling.
MaxScopes == 2

Siblings == {1, 2}
DynKeys == {"k1", "k2"}

UnsetValue == [sib |-> 0, depth |-> 0, v |-> "unset"]
\* A key without an entry.
Unbound == [sib |-> 0, depth |-> 0, v |-> "none"]
OuterValue == [sib |-> 0, depth |-> 0, v |-> "outer"]
NoGet == [sib |-> 0, key |-> "", value |-> Unbound, at |-> <<>>]

EmptyScope == [k \in DynKeys |-> Unbound]

\* The bindings map of the dynamic:eval of sibling s at depth d, binding the
\* keys K.
Bindings(s, d, K) ==
    [k \in DynKeys |-> IF k \in K THEN [sib |-> s, depth |-> d, v |-> "value"] ELSE Unbound]

\* dynamic_binding_set with a mutator that sets nothing.
SetBindingsSkipped(scope, entries) == scope

\* dynamic_binding_set, lines 212-217: every entry is set in the scope.
SetBindings(scope, entries) ==
    [k \in DynKeys |-> IF entries[k] # Unbound THEN entries[k] ELSE scope[k]]

\* dynamic_binding_get where every key reads as Unset.
ScopeGetUnset(scope, key) == UnsetValue

\* dynamic_binding_get, lines 194-197: the binding of the key in the scope, or
\* Unset.
ScopeGet(scope, key) == IF scope[key] = Unbound THEN UnsetValue ELSE scope[key]

\* Context::with: the dynamic scope of the context sibling s is running in,
\* that of its innermost fork or else the one it was spawned in.
CurrentScope(s) ==
    IF dstack[s] = <<>> THEN dparent ELSE dstack[s][Len(dstack[s])].scope

DynamicInit ==
    /\ dparent \in {EmptyScope, [EmptyScope EXCEPT !["k1"] = OuterValue]}
    /\ dstack = [s \in Siblings |-> <<>>]
    /\ dget = NoGet

DynamicIdle ==
    /\ dparent = EmptyScope
    /\ dstack = [s \in Siblings |-> <<>>]
    /\ dget = NoGet

\* dynamic_binding_set, lines 209-217: Context::fork derives a scope with the
\* bindings set, in which the value is then evaluated.
DynamicEval(s, K) ==
    /\ Len(dstack[s]) < MaxScopes
    /\ LET entries == Bindings(s, Len(dstack[s]) + 1, K) IN
       dstack' = [dstack EXCEPT ![s] =
                     Append(@, [entries |-> entries,
                                scope |-> SetBindings(CurrentScope(s), entries)])]
    /\ UNCHANGED <<dparent, dget>>
    /\ UNCHANGED notDynamic

\* dynamic_binding_get, lines 190-201: the value is evaluated in the context
\* of sibling s.
DynamicGet(s, key) ==
    /\ dget' = [sib |-> s, key |-> key, value |-> ScopeGet(CurrentScope(s), key),
                at |-> [i \in 1..Len(dstack[s]) |-> dstack[s][i].entries]]
    /\ UNCHANGED <<dparent, dstack>>
    /\ UNCHANGED notDynamic

\* dynamic_binding_set, lines 218-223: the evaluation is over and the fork ends.
DynamicEvalDone(s) ==
    /\ dstack[s] # <<>>
    /\ dstack' = [dstack EXCEPT ![s] = SubSeq(@, 1, Len(@) - 1)]
    /\ UNCHANGED <<dparent, dget>>
    /\ UNCHANGED notDynamic

DynamicNext ==
    \/ \E s \in Siblings, K \in (SUBSET DynKeys) \ {{}} : DynamicEval(s, K)
    \/ \E s \in Siblings, key \in DynKeys : DynamicGet(s, key)
    \/ \E s \in Siblings : DynamicEvalDone(s)

(***************************************************************************)
(* The display of errors: ergo/src/main.rs, lines 354-408.                 *)
(*                                                                         *)
(* An error is [kind, text, inner]: a root error with its message, an      *)
(* ErrorContext with its context around one inner error, or an aggregate   *)
(* of inner errors.  A line of output is [kind, text, n].                  *)
(***************************************************************************)
\* Levels of contexts and aggregates around the root errors.
MaxErrorDepth == 2
\* The largest limit configured.
MaxLimit == 2

Contexts == {"c1", "c2"}

RootError == [kind |-> "root", text |-> "e", inner |-> <<>>]

RECURSIVE ErrorsOfDepth(_)
ErrorsOfDepth(n) ==
    IF n = 0 THEN {RootError}
    ELSE ErrorsOfDepth(n - 1)
         \cup {[kind |-> "context", text |-> c, inner |-> <<e>>] :
                  c \in Contexts, e \in ErrorsOfDepth(n - 1)}
         \cup {[kind |-> "aggregate", text |-> "", inner |-> <<e, f>>] :
                  e \in ErrorsOfDepth(n - 1), f \in ErrorsOfDepth(n - 1)}

\* Option<usize>: None, or Some(n).
NoLimit == [some |-> FALSE, n |-> 0]
Limits == {NoLimit} \cup {[some |-> TRUE, n |-> k] : k \in 0..MaxLimit}

ErrorLine(e) == [kind |-> "error", text |-> e.text, n |-> 0]
NoteLine(ctx) == [kind |-> "note", text |-> ctx, n |-> 0]
OmittingLine(k) == [kind |-> "omitting", text |-> "", n |-> k]

\* Iterator::rev.
Reverse(s) == [i \in 1..Len(s) |-> s[Len(s) + 1 - i]]

\* Iterator::take.
Take(s, k) == SubSeq(s, 1, IF k < Len(s) THEN k ELSE Len(s))

\* The contexts as they were pushed.
ContextsInPushOrder(contexts) == contexts

\* Lines 384 and 386: contexts.iter().rev().
ContextsWritten(contexts) == Reverse(contexts)

\* Lines 383-392: the note lines of a root error, and the line about the
\* omitted ones.
WriteContexts(contexts, limit) ==
    IF ~limit.some
    THEN [i \in 1..Len(contexts) |-> NoteLine(ContextsWritten(contexts)[i])]
    ELSE [i \in 1..Len(Take(contexts, limit.n)) |->
             NoteLine(Take(ContextsWritten(contexts), limit.n)[i])]
         \o (IF limit.n < Len(contexts)
             THEN <<OmittingLine(Len(contexts) - limit.n)>> ELSE <<>>)

\* display_errors, lines 355-401: the lines written for e below the contexts.
RECURSIVE display_errors(_, _, _)
RECURSIVE DisplayInner(_, _, _, _)
DisplayInner(inner, i, contexts, limit) ==
    IF i > Len(inner) THEN <<>>
    ELSE display_errors(inner[i], contexts, limit)
             \o DisplayInner(inner, i + 1, contexts, limit)

display_errors(e, contexts, limit) ==
    LET pushed == IF e.kind = "context" THEN Append(contexts, e.text) ELSE contexts
    IN IF e.inner = <<>>
       THEN <<ErrorLine(e)>> \o WriteContexts(pushed, limit)
       ELSE DisplayInner(e.inner, 1, pushed, limit)

ErrorInit ==
    /\ eerr \in ErrorsOfDepth(MaxErrorDepth)
    /\ elimit \in Limits
    /\ eout = <<>>

ErrorIdle ==
    /\ eerr = RootError
    /\ elimit = NoLimit
    /\ eout = <<>>

\* run, lines 403-407: the error of the run is displayed.
DisplayErrors ==
    /\ eout = <<>>
    /\ eout' = display_errors(eerr, <<>>, elimit)
    /\ UNCHANGED <<eerr, elimit>>
    /\ UNCHANGED notError

ErrorNext == DisplayErrors

(***************************************************************************)
(* std:match (ergo_std/src/match.rs).  A case `pattern -> body` is bound   *)
(* with the value: a pattern that does not bind gives a value of type      *)
(* Error, a pattern that binds gives the body, a value that is not         *)
(* evaluated yet and has no type until it is.                              *)
(***************************************************************************)
MaxCases == 3

\* The matched value once evaluated: a value of some type, or an Error.
MatchValues == {"Data", "Error"}

\* What the body of a case does when it is evaluated: it gives a value, it
\* throws, or a binding inside it fails.
Bodies == {"value", "throws", "bind fails"}

\* A case: whether its pattern binds the value, and its body.
Cases == [binds : BOOLEAN, body : Bodies]

BindingsOfLen(n) == [1..n -> Cases]

\* The arrays of cases.
BindingArrays == UNION {BindingsOfLen(n) : n \in 0..MaxCases}

\* A value: its type when it is known ("none" before evaluation) and what
\* its evaluator produces.
PatternError == [type |-> "Error", evaluates |-> "error"]

BodyValue(b) ==
    [type |-> "none", evaluates |-> IF b = "value" THEN "data" ELSE "error"]

\* traits::bind of a case with the value.
bind(b, value) == IF b.binds THEN BodyValue(b.body) ELSE PatternError

\* The test of a loop that evaluates the result before it looks at its type.
as_type_Error_evaluated(v) == v.evaluates = "error"

\* result.as_type::<types::Error>(): Ok when the value's type is Error now.
as_type_Error(v) == v.type = "Error"

NoMatchRet == [kind |-> "none", case |-> 0, error |-> "none"]

NotEvaluated == "pending"

\* The loop over the bindings, from index i on: the first result that is not
\* an Error is returned, and tried is the bindings bound so far.
RECURSIVE TryBindingsToTheEnd(_, _, _, _)
TryBindingsToTheEnd(bindings, value, i, tried) ==
    IF i > Len(bindings)
    THEN [ret |-> NoMatchRet, tried |-> tried]
    ELSE LET rest == TryBindingsToTheEnd(bindings, value, i + 1, Append(tried, i))
         IN  IF as_type_Error(bind(bindings[i], value)) \/ rest.ret.kind = "value"
             THEN rest
             ELSE [ret |-> [kind |-> "value", case |-> i, error |-> "none"],
                   tried |-> rest.tried]

RECURSIVE TryBindings(_, _, _, _)
TryBindings(bindings, value, i, tried) ==
    IF i > Len(bindings)
    THEN [ret |-> NoMatchRet, tried |-> tried]
    ELSE IF as_type_Error(bind(bindings[i], value))
         THEN TryBindings(bindings, value, i + 1, Append(tried, i))
         ELSE [ret |-> [kind |-> "value", case |-> i, error |-> "none"],
               tried |-> Append(tried, i)]

\* The error of a match none of whose bindings matched.
NoMatchError(value) ==
    IF value = "Error" THEN "the value's error" ELSE "no bindings matched the value"

\* match value bindings.
function(value, bindings) ==
    LET r == TryBindings(bindings, value, 1, <<>>)
    IN  IF r.ret.kind = "value"
        THEN r
        ELSE [ret |-> [kind |-> "error", case |-> 0, error |-> NoMatchError(value)],
              tried |-> r.tried]

MatchInit ==
    /\ mvalue \in MatchValues
    /\ mbindings \in BindingArrays
    /\ mret = NoMatchRet
    /\ mtried = <<>>
    /\ meval = NotEvaluated

MatchIdle ==
    /\ mvalue = "Data"
    /\ mbindings = <<>>
    /\ mret = NoMatchRet
    /\ mtried = <<>>
    /\ meval = NotEvaluated

\* The script calls match.
Match ==
    /\ mret = NoMatchRet
    /\ mret' = function(mvalue, mbindings).ret
    /\ mtried' = function(mvalue, mbindings).tried
    /\ UNCHANGED <<mvalue, mbindings, meval>>
    /\ UNCHANGED notMatch

\* The value the match returned is evaluated (the script uses it).
MatchEvaluate ==
    /\ mret # NoMatchRet
    /\ meval = NotEvaluated
    /\ meval' = IF mret.kind = "error"
                THEN "error"
                ELSE bind(mbindings[mret.case], mvalue).evaluates
    /\ UNCHANGED <<mvalue, mbindings, mret, mtried>>
    /\ UNCHANGED notMatch

MatchNext == Match \/ MatchEvaluate

(***************************************************************************)
(* std:value:merge (ergo_std/src/value.rs).  A value is [type, str,        *)
(* elems]: str is the content of a String, elems the elements of an Array  *)
(* or, for a Map, the value of every key of MergeKeys, AbsentEntry for a   *)
(* key the map does not have.                                              *)
(***************************************************************************)
MaxMergeLen == 2

\* The keys of the maps: k1 and k2.
MergeKeys == 1..2

UnitOf == [type |-> "Unit", str |-> "", elems |-> <<>>]

StringOf(s) == [type |-> "String", str |-> s, elems |-> <<>>]

ArrayOf(e) == [type |-> "Array", str |-> "", elems |-> e]

MapOf(e) == [type |-> "Map", str |-> "", elems |-> e]

AbsentEntry == [type |-> "absent", str |-> "", elems |-> <<>>]

NotMerged == [type |-> "none", str |-> "", elems |-> <<>>]

\* The keys a map has.
KeysOf(m) == {k \in MergeKeys : m.elems[k] # AbsentEntry}

\* The arrays of at most n elements of S, and the maps from keys of K to S.
ArraysOver(S, n) == {ArrayOf(e) : e \in UNION {[1..l -> S] : l \in 0..n}}

MapsOver(S, K) ==
    {MapOf(e) : e \in {f \in [MergeKeys -> S \cup {AbsentEntry}] :
                           \A k \in MergeKeys \ K : f[k] = AbsentEntry}}

MergeLeaves == {StringOf("x"), UnitOf}

\* The values nested in an argument: the leaves, the arrays of at most one
\* string and the maps of at most one key.
MergeInner ==
    MergeLeaves \cup ArraysOver({StringOf("x")}, 1)
    \cup MapsOver({StringOf("x")}, {1}) \cup MapsOver({StringOf("x")}, {2})

\* The arguments of merge.
MergeArgs ==
    MergeInner \cup ArraysOver(MergeInner, MaxMergeLen) \cup MapsOver(MergeInner, MergeKeys)

min(m, n) == IF m <= n THEN m ELSE n

\* What a taken iterator still yields: the whole of b again.
biter_whole(b, n) == b

\* biter after by_ref().take(n) gave its n elements: the rest of b.
biter_rest(b, n) == SubSeq(b, n + 1, Len(b))

\* Merger::merge.
RECURSIVE merge(_, _, _)
merge(a, b, array_merge) ==
    IF a.type = b.type /\ a.type = "Map"
    THEN MapOf([k \in MergeKeys |->
                   IF k \notin KeysOf(b)
                   THEN a.elems[k]
                   ELSE IF k \in KeysOf(a)
                        THEN merge(a.elems[k], b.elems[k], array_merge)
                        ELSE b.elems[k]])
    ELSE IF a.type = b.type /\ a.type = "Array"
    THEN IF array_merge
         THEN LET merge_len == min(Len(a.elems), Len(b.elems))
                  merged == [i \in 1..Len(a.elems) |->
                                IF i <= merge_len
                                THEN merge(a.elems[i], b.elems[i], array_merge)
                                ELSE a.elems[i]]
              IN  ArrayOf(merged \o biter_rest(b.elems, merge_len))
         ELSE ArrayOf(a.elems \o b.elems)
    ELSE b

MergeInit ==
    /\ mga \in MergeArgs
    /\ mgb \in MergeArgs
    /\ mgflag \in BOOLEAN
    /\ mgout = NotMerged

MergeIdle ==
    /\ mga = UnitOf
    /\ mgb = UnitOf
    /\ mgflag = FALSE
    /\ mgout = NotMerged

\* The script calls merge a b, with or without array-merge.
Merge ==
    /\ mgout = NotMerged
    /\ mgout' = merge(mga, mgb, mgflag)
    /\ UNCHANGED <<mga, mgb, mgflag>>
    /\ UNCHANGED notMerge

MergeNext == Merge

(***************************************************************************)
(* Function arguments (so_runtime/src/lib.rs) and the std path module's    *)
(* use of them (ergo_std/src/path.rs, module).  FunctionArguments is       *)
(* [positional, taken, non_positional]: the positional arguments not yet   *)
(* taken, the number taken, and the keys of the keyed arguments left.      *)
(***************************************************************************)
MaxArgs == 3

\* Positional arguments: the names of the module's functions, another
\* string, a path and a value of another type.
ArgValues == {"new", "join", "relative", "split", "other", "a path", "a unit"}

ArgKeys == {"k1", "k2"}

TypeOfArg(v) ==
    IF v = "a path" THEN "PathBuf" ELSE IF v = "a unit" THEN "Unit" ELSE "String"

ArgLists == UNION {[1..n -> ArgValues] : n \in 0..MaxArgs}

FunctionArguments_new(positional, non_positional) ==
    [positional |-> positional, taken |-> 0, non_positional |-> non_positional]

\* An error: what it says and the argument it is about (the index of a
\* positional argument, the key of a keyed one, "" for the call site).
ErrorAt(kind, at) == [kind |-> kind, at |-> at]

PositionalAt(i) == ErrorAt("UnexpectedPositionalArguments", <<"positional", i>>)

KeyedAt(k) == ErrorAt("UnexpectedNonPositionalArgument", <<k, 0>>)

CallSite(msg) == ErrorAt(msg, <<"call site", 0>>)

NoArgsRet == [state |-> "none", errors |-> {}]

Ok == [state |-> "Ok", errors |-> {}]

\* Error::aggregate and Error::from: an error holding the given errors.
Err(errors) == [state |-> "Err", errors |-> errors]

\* UncheckedFunctionArguments::is_empty: no positional argument is left.
is_empty(args) == Len(args.positional) = 0

\* Iterator::next of the arguments: the first positional argument is taken.
next(args) ==
    [args EXCEPT !.positional = Tail(@), !.taken = @ + 1]

\* UncheckedFunctionArguments::clear.
clear(args) ==
    [args EXCEPT !.positional = <<>>, !.taken = @ + Len(args.positional),
                 !.non_positional = {}]

\* FunctionCall::unused_non_positional: takes all keyed arguments.
unused_non_positional(args) ==
    [ret |-> IF args.non_positional = {}
             THEN Ok
             ELSE Err({KeyedAt(k) : k \in args.non_positional}),
     args |-> [args EXCEPT !.non_positional = {}]]

\* FunctionCall::unused_positional: takes all positional arguments.
unused_positional(args) ==
    [ret |-> IF is_empty(args)
             THEN Ok
             ELSE Err({PositionalAt(args.taken + i) : i \in 1..Len(args.positional)}),
     args |-> [args EXCEPT !.positional = <<>>, !.taken = @ + Len(args.positional)]]

\* unused_arguments written with `?`: the keyed arguments are not looked at
\* once the positional ones gave an error.
unused_arguments_short(args) ==
    LET p == unused_positional(args)
    IN  IF p.ret.state = "Err" THEN p ELSE unused_non_positional(p.args)

\* FunctionCall::unused_arguments: both checks are made, then matched.
unused_arguments(args) ==
    LET p == unused_positional(args)
        k == unused_non_positional(p.args)
    IN  [ret |-> IF p.ret.state = "Err" /\ k.ret.state = "Err"
                 THEN Err(p.ret.errors \cup k.ret.errors)
                 ELSE IF p.ret.state = "Err" THEN p.ret
                 ELSE IF k.ret.state = "Err" THEN k.ret
                 ELSE Ok,
         args |-> k.args]

\* path new: no argument is expected.
new_call(args) == unused_arguments(args)

\* path join: every positional argument is taken, up to the first that is
\* neither a string nor a path; no component was given when only the name of
\* the function was taken.
RECURSIVE join_call(_)
join_call(args) ==
    IF is_empty(args)
    THEN LET u == unused_arguments(args)
         IN  IF u.ret.state = "Err"
             THEN u
             ELSE IF args.taken <= 1
                  THEN [ret |-> Err({CallSite("at least one path component is required")}),
                        args |-> u.args]
                  ELSE u
    ELSE IF TypeOfArg(Head(args.positional)) \in {"String", "PathBuf"}
         THEN join_call(next(args))
         ELSE [ret |-> Err({CallSite("all arguments must be strings or paths")}),
               args |-> next(args)]

\* path split: one path.
split_call(args) ==
    IF is_empty(args)
    THEN [ret |-> Err({CallSite("no path to split")}), args |-> args]
    ELSE LET u == unused_arguments(next(args))
         IN  IF u.ret.state = "Err"
             THEN u
             ELSE IF TypeOfArg(Head(args.positional)) # "PathBuf"
                  THEN [ret |-> Err({CallSite("can only split path types")}), args |-> u.args]
                  ELSE u

\* path relative: a base path and a path.
relative_call(args) ==
    IF is_empty(args)
    THEN [ret |-> Err({CallSite("no base path")}), args |-> args]
    ELSE IF is_empty(next(args))
    THEN [ret |-> Err({CallSite("no path")}), args |-> next(args)]
    ELSE LET u == unused_arguments(next(next(args)))
         IN  IF u.ret.state = "Err"
             THEN u
             ELSE IF TypeOfArg(args.positional[1]) # "PathBuf"
                  THEN [ret |-> Err({CallSite("base must be a path")}), args |-> u.args]
                  ELSE IF TypeOfArg(args.positional[2]) # "PathBuf"
                  THEN [ret |-> Err({CallSite("not a path")}), args |-> u.args]
                  ELSE u

\* The std path module: a function whose first argument names the operation.
module(args) ==
    IF is_empty(args)
    THEN [ret |-> Err({CallSite("missing argument")}), args |-> args]
    ELSE IF TypeOfArg(Head(args.positional)) # "String"
    THEN [ret |-> Err({CallSite("module argument must be a string")}),
          args |-> next(args)]
    ELSE LET name == Head(args.positional)
             rest == next(args)
         IN  IF name = "new" THEN new_call(rest)
             ELSE IF name = "join" THEN join_call(rest)
             ELSE IF name = "relative" THEN relative_call(rest)
             ELSE IF name = "split" THEN split_call(rest)
             ELSE [ret |-> Ok, args |-> rest]

\* apply_value for a Function: the function is called, and the caller clears
\* the arguments when it returned an error.
apply_value(args) ==
    LET r == module(args)
    IN  IF r.ret.state = "Err" THEN [ret |-> r.ret, args |-> clear(r.args)] ELSE r

ArgsInit ==
    /\ apassed \in {FunctionArguments_new(p, k) : p \in ArgLists, k \in SUBSET ArgKeys}
    /\ aargs = apassed
    /\ aop = "none"
    /\ aret = NoArgsRet
    /\ adrop = "none"

ArgsIdle ==
    /\ apassed = FunctionArguments_new(<<>>, {})
    /\ aargs = apassed
    /\ aop = "none"
    /\ aret = NoArgsRet
    /\ adrop = "none"

\* A function checks that nothing is left of its arguments.
UnusedArguments ==
    /\ aop = "none"
    /\ aop' = "unused_arguments"
    /\ aret' = unused_arguments(aargs).ret
    /\ aargs' = unused_arguments(aargs).args
    /\ UNCHANGED <<apassed, adrop>>
    /\ UNCHANGED notArgs

\* The script applies the path module to the arguments.
ApplyValue ==
    /\ aop = "none"
    /\ aop' = "apply_value"
    /\ aret' = apply_value(aargs).ret
    /\ aargs' = apply_value(aargs).args
    /\ UNCHANGED <<apassed, adrop>>
    /\ UNCHANGED notArgs

\* Drop for FunctionArguments, when the call is over: the assertion that all
\* arguments were consumed.
ArgsDrop ==
    /\ aop # "none"
    /\ adrop = "none"
    /\ adrop' = IF is_empty(aargs) /\ aargs.non_positional = {}
                THEN "dropped"
                ELSE "assertion failed"
    /\ UNCHANGED <<apassed, aargs, aop, aret>>
    /\ UNCHANGED notArgs

ArgsNext == UnusedArguments \/ ApplyValue \/ ArgsDrop

(***************************************************************************)
(* std:io:stdout (ergo_std/src/io.rs): the evaluation of the values that   *)
(* stdout_fn makes, by the tasks of the pool.                              *)
(***************************************************************************)
MaxWriters == 3

\* The stdout values evaluated concurrently.
Writers == 1..MaxWriters

NoHolder == 0

\* log.pause(): a guard is made, and logging is paused while one is alive.
pause(n) == n + 1

\* The guard is dropped only when the copy succeeded.
drop_paused_on_success(n, res) == IF res = "Ok" THEN n - 1 ELSE n

\* drop(paused), or the end of the scope on an error: the guard is dropped.
drop_paused(n, res) == n - 1

StdoutInit ==
    /\ wpc = [w \in Writers |-> "data"]
    /\ wres = [w \in Writers |-> "none"]
    /\ stdout_mutex = NoHolder
    /\ log_paused = 0

StdoutIdle ==
    /\ wpc = [w \in Writers |-> "done"]
    /\ wres = [w \in Writers |-> "none"]
    /\ stdout_mutex = NoHolder
    /\ log_paused = 0

\* let data = data.await?: the data is evaluated, to a stream or to an error.
StdoutData(w) ==
    /\ wpc[w] = "data"
    /\ \E ok \in BOOLEAN :
         /\ wpc' = [wpc EXCEPT ![w] = IF ok THEN "lock" ELSE "done"]
         /\ wres' = [wres EXCEPT ![w] = IF ok THEN "none" ELSE "Err"]
    /\ UNCHANGED <<stdout_mutex, log_paused>>
    /\ UNCHANGED notStdout

\* let _guard = STDOUT_MUTEX.lock().await: granted when the mutex is free.
StdoutLock(w) ==
    /\ wpc[w] = "lock"
    /\ stdout_mutex = NoHolder
    /\ stdout_mutex' = w
    /\ wpc' = [wpc EXCEPT ![w] = "pause"]
    /\ UNCHANGED <<wres, log_paused>>
    /\ UNCHANGED notStdout

\* let paused = log.pause(), after which io::copy starts.
StdoutPause(w) ==
    /\ wpc[w] = "pause"
    /\ log_paused' = pause(log_paused)
    /\ wpc' = [wpc EXCEPT ![w] = "copy"]
    /\ UNCHANGED <<wres, stdout_mutex>>
    /\ UNCHANGED notStdout

\* io::copy(...).await ends, with success or with an error.
StdoutCopyEnd(w) ==
    /\ wpc[w] = "copy"
    /\ \E ok \in BOOLEAN : wres' = [wres EXCEPT ![w] = IF ok THEN "Ok" ELSE "Err"]
    /\ wpc' = [wpc EXCEPT ![w] = "resume"]
    /\ UNCHANGED <<stdout_mutex, log_paused>>
    /\ UNCHANGED notStdout

\* drop(paused) on success; on an error `?` returns and paused, declared
\* last, is the first local to be dropped.
StdoutResume(w) ==
    /\ wpc[w] = "resume"
    /\ log_paused' = drop_paused(log_paused, wres[w])
    /\ wpc' = [wpc EXCEPT ![w] = "unlock"]
    /\ UNCHANGED <<wres, stdout_mutex>>
    /\ UNCHANGED notStdout

\* _guard is dropped at the end of the scope: the mutex is released.
StdoutUnlock(w) ==
    /\ wpc[w] = "unlock"
    /\ stdout_mutex' = NoHolder
    /\ wpc' = [wpc EXCEPT ![w] = "done"]
    /\ UNCHANGED <<wres, log_paused>>
    /\ UNCHANGED notStdout

StdoutNext ==
    \/ \E w \in Writers : StdoutData(w)
    \/ \E w \in Writers : StdoutLock(w)
    \/ \E w \in Writers : StdoutPause(w)
    \/ \E w \in Writers : StdoutCopyEnd(w)
    \/ \E w \in Writers : StdoutResume(w)
    \/ \E w \in Writers : StdoutUnlock(w)

(***************************************************************************)
(* std:collection:fold (ergo_std/src/collection.rs, fold_fn).  The value   *)
(* f returns for an accumulator and an element is written as the sequence  *)
(* of the elements applied so far to the base value, which is <<>>.        *)
(***************************************************************************)
MaxFold == 3

FoldElems == {"v1", "v2"}

FoldArrays == UNION {[1..n -> FoldElems] : n \in 0..MaxFold}

FoldOk(v) == [state |-> "Ok", value |-> v, at |-> 0]

\* The error of the call of f for the element at position i.
FoldErr(i) == [state |-> "Err", value |-> <<>>, at |-> i]

NoFoldRet == [state |-> "none", value |-> <<>>, at |-> 0]

\* The base value, orig.
FoldBase == <<>>

\* f.call(FunctionArguments::positional(vec![accv, v])).
call_f(accv, v, i, fails) == IF fails THEN FoldErr(i) ELSE FoldOk(Append(accv, v))

\* A link that calls f whatever the accumulator is, with the last value.
then_call(acc, v, i, fails) ==
    [acc |-> call_f(acc.value, v, i, fails),
     calls |-> <<[acc |-> acc.value, elem |-> v]>>]

\* acc.and_then(move |accv| f.call(...)): f is called when the accumulator
\* is Ok, and an error is passed on.
and_then_call(acc, v, i, fails) ==
    IF acc.state = "Ok"
    THEN [acc |-> call_f(acc.value, v, i, fails),
          calls |-> <<[acc |-> acc.value, elem |-> v]>>]
    ELSE [acc |-> acc, calls |-> <<>>]

FoldInit ==
    /\ fvals \in FoldArrays
    /\ ffails \in SUBSET (1..Len(fvals))
    /\ fpos = 0
    /\ facc = FoldOk(FoldBase)
    /\ fcalls = <<>>
    /\ fret = NoFoldRet

FoldIdle ==
    /\ fvals = <<>>
    /\ ffails = {}
    /\ fpos = 0
    /\ facc = FoldOk(FoldBase)
    /\ fcalls = <<>>
    /\ fret = NoFoldRet

\* The next link of the chain built by Iterator::fold is resolved.
FoldLink ==
    /\ fret = NoFoldRet
    /\ fpos < Len(fvals)
    /\ LET i == fpos + 1
           r == and_then_call(facc, fvals[i], i, i \in ffails)
       IN  /\ facc' = r.acc
           /\ fcalls' = fcalls \o r.calls
           /\ fpos' = i
    /\ UNCHANGED <<fvals, ffails, fret>>
    /\ UNCHANGED notFold

\* Ok(val.await?...): the result of the chain is the result of the fold.
FoldReturn ==
    /\ fret = NoFoldRet
    /\ fpos = Len(fvals)
    /\ fret' = facc
    /\ UNCHANGED <<fvals, ffails, fpos, facc, fcalls>>
    /\ UNCHANGED notFold

FoldNext == FoldLink \/ FoldReturn

(***************************************************************************)
(* The logger at the end of run() (ergo/src/main.rs): run() holds the Arc  *)
(* of the logger, the context's threads log through WeakLogTarget.         *)
(***************************************************************************)
MaxLogCalls == 4

\* The threads of the pool that may still be logging when run() ends.
LogThreads == {"w1", "w2", "w3"}

NoThread == "-"

\* Weak::upgrade: a strong reference when the logger exists.
upgrade(alive) == alive

\* The call ends and keeps its strong reference.
release_kept(n) == n

\* The end of WeakLogTarget::with: the upgraded Arc is dropped.
release(n) == n - 1

LoggerInit ==
    /\ lalive = TRUE
    /\ lstrong = 1
    /\ llock = NoThread
    /\ lpc = "loop"
    /\ lthread = [t \in LogThreads |-> "idle"]
    /\ lcalls = 0
    /\ lnone = 0
    /\ lout = <<>>

LoggerIdle ==
    /\ lalive = FALSE
    /\ lstrong = 0
    /\ llock = NoThread
    /\ lpc = "done"
    /\ lthread = [t \in LogThreads |-> "idle"]
    /\ lcalls = 0
    /\ lnone = 0
    /\ lout = <<>>

\* A thread calls a LogTarget function of the WeakLogTarget: with() upgrades
\* the weak handle, and returns None when there is no logger any more.
LogCall(t) ==
    /\ lthread[t] = "idle"
    /\ lcalls < MaxLogCalls
    /\ lcalls' = lcalls + 1
    /\ IF upgrade(lalive)
       THEN /\ lstrong' = lstrong + 1
            /\ lthread' = [lthread EXCEPT ![t] = "upgraded"]
            /\ UNCHANGED lnone
       ELSE /\ lnone' = lnone + 1
            /\ UNCHANGED <<lstrong, lthread>>
    /\ UNCHANGED <<lalive, llock, lpc, lout>>
    /\ UNCHANGED notLogger

\* logger.lock(): granted when the Mutex is free.
LogLock(t) ==
    /\ lthread[t] = "upgraded"
    /\ llock = NoThread
    /\ llock' = t
    /\ lthread' = [lthread EXCEPT ![t] = "locked"]
    /\ UNCHANGED <<lalive, lstrong, lpc, lcalls, lnone, lout>>
    /\ UNCHANGED notLogger

\* f(&mut *logger): the logger writes the entry.
LogWrite(t) ==
    /\ lthread[t] = "locked"
    /\ lout' = Append(lout, "log")
    /\ lthread' = [lthread EXCEPT ![t] = "logged"]
    /\ UNCHANGED <<lalive, lstrong, llock, lpc, lcalls, lnone>>
    /\ UNCHANGED notLogger

\* with() returns: the lock guard and the upgraded Arc are dropped.
LogEnd(t) ==
    /\ lthread[t] = "logged"
    /\ llock' = NoThread
    /\ lstrong' = release(lstrong)
    /\ lthread' = [lthread EXCEPT ![t] = "idle"]
    /\ UNCHANGED <<lalive, lpc, lcalls, lnone, lout>>
    /\ UNCHANGED notLogger

\* One turn of the loop of run(): Arc::try_unwrap gives the logger, which is
\* dropped, when run() holds the only strong reference, and gives the Arc
\* back otherwise.
TryUnwrap ==
    /\ lpc = "loop"
    /\ IF lstrong = 1
       THEN /\ lalive' = FALSE
            /\ lstrong' = 0
            /\ lpc' = "dropped"
            /\ lout' = Append(lout, "logger dropped")
       ELSE UNCHANGED <<lalive, lstrong, lpc, lout>>
    /\ UNCHANGED <<llock, lthread, lcalls, lnone>>
    /\ UNCHANGED notLogger

\* The error output is written to stderr.
WriteErrorOutput ==
    /\ lpc = "dropped"
    /\ lout' = Append(lout, "error output")
    /\ lpc' = "done"
    /\ UNCHANGED <<lalive, lstrong, llock, lthread, lcalls, lnone>>
    /\ UNCHANGED notLogger

LoggerNext ==
    \/ \E t \in LogThreads : LogCall(t)
    \/ \E t \in LogThreads : LogLock(t)
    \/ \E t \in LogThreads : LogWrite(t)
    \/ \E t \in LogThreads : LogEnd(t)
    \/ TryUnwrap
    \/ WriteErrorOutput

\* The threads and run() keep running: a step that can be taken is taken.
LoggerFairness ==
    /\ \A t \in LogThreads :
          WF_vars(LogLock(t)) /\ WF_vars(LogWrite(t)) /\ WF_vars(LogEnd(t))
    /\ WF_vars(TryUnwrap)
    /\ WF_vars(WriteErrorOutput)

\* The loader, called by the tasks of the pool.
Init == LoaderInit /\ ResolveIdle /\ StoreIdle /\ TraitsInit /\ PathInit /\ ContentIdle /\ StoredIdle /\ DynamicIdle /\ ErrorIdle /\ MatchIdle /\ MergeIdle /\ ArgsIdle /\ StdoutIdle /\ FoldIdle /\ LoggerIdle

Next == LoaderNext

Spec == Init /\ [][Next]_vars

\* Path resolution over every content of the search directories.
InitResolve == ResolveInit /\ LoaderIdle /\ StoreIdle /\ TraitsInit /\ PathInit /\ ContentIdle /\ StoredIdle /\ DynamicIdle /\ ErrorIdle /\ MatchIdle /\ MergeIdle /\ ArgsIdle /\ StdoutIdle /\ FoldIdle /\ LoggerIdle

NextResolve == ResolveNext

SpecResolve == InitResolve /\ [][NextResolve]_vars

\* The operations of the store's items.
InitStore == StoreInit /\ LoaderIdle /\ ResolveIdle /\ TraitsInit /\ PathInit /\ ContentIdle /\ StoredIdle /\ DynamicIdle /\ ErrorIdle /\ MatchIdle /\ MergeIdle /\ ArgsIdle /\ StdoutIdle /\ FoldIdle /\ LoggerIdle

NextStore == StoreNext

SpecStore == InitStore /\ [][NextStore]_vars

\* Conversions through the trait registry.
InitTraits == TraitsInit /\ LoaderIdle /\ ResolveIdle /\ StoreIdle /\ PathInit /\ ContentIdle /\ StoredIdle /\ DynamicIdle /\ ErrorIdle /\ MatchIdle /\ MergeIdle /\ ArgsIdle /\ StdoutIdle /\ FoldIdle /\ LoggerIdle

NextTraits == TraitsNext

SpecTraits == InitTraits /\ [][NextTraits]_vars

\* Values built by the path functions.
InitPath == PathInit /\ LoaderIdle /\ ResolveIdle /\ StoreIdle /\ TraitsInit /\ ContentIdle /\ StoredIdle /\ DynamicIdle /\ ErrorIdle /\ MatchIdle /\ MergeIdle /\ ArgsIdle /\ StdoutIdle /\ FoldIdle /\ LoggerIdle

NextPath == PathNext

SpecPath == InitPath /\ [][NextPath]_vars

\* value_by_content on two values of one type.
InitContent ==
    ContentInit /\ LoaderIdle /\ ResolveIdle /\ StoreIdle /\ TraitsInit /\ PathInit /\ StoredIdle /\ DynamicIdle /\ ErrorIdle /\ MatchIdle /\ MergeIdle /\ ArgsIdle /\ StdoutIdle /\ FoldIdle /\ LoggerIdle

NextContent == ContentNext

SpecContent == InitContent /\ [][NextContent]_vars

\* A Map is put to the store and read back.
InitStored ==
    StoredInit /\ LoaderIdle /\ ResolveIdle /\ StoreIdle /\ TraitsInit /\ PathInit /\ DynamicIdle /\ ErrorIdle /\ MatchIdle /\ MergeIdle /\ ArgsIdle /\ StdoutIdle /\ FoldIdle /\ LoggerIdle
        /\ ContentIdle

NextStored == StoredNext

SpecStored == InitStored /\ [][NextStored]_vars

\* Sibling evaluations with dynamic bindings.
InitDynamic ==
    DynamicInit /\ LoaderIdle /\ ResolveIdle /\ StoreIdle /\ TraitsInit /\ PathInit /\ ErrorIdle /\ MatchIdle /\ MergeIdle /\ ArgsIdle /\ StdoutIdle /\ FoldIdle /\ LoggerIdle
        /\ ContentIdle /\ StoredIdle

NextDynamic == DynamicNext

SpecDynamic == InitDynamic /\ [][NextDynamic]_vars

\* The display of the error a run ended with.
InitError ==
    ErrorInit /\ LoaderIdle /\ ResolveIdle /\ StoreIdle /\ TraitsInit /\ PathInit /\ MatchIdle /\ MergeIdle /\ ArgsIdle /\ StdoutIdle /\ FoldIdle /\ LoggerIdle
        /\ ContentIdle /\ StoredIdle /\ DynamicIdle

NextError == ErrorNext

SpecError == InitError /\ [][NextError]_vars

\* std:match, called by a script.
InitMatch ==
    MatchInit /\ LoaderIdle /\ ResolveIdle /\ StoreIdle /\ TraitsInit /\ PathInit /\ MergeIdle /\ ArgsIdle /\ StdoutIdle /\ FoldIdle /\ LoggerIdle
    /\ ContentIdle /\ StoredIdle /\ DynamicIdle /\ ErrorIdle

NextMatch == MatchNext

SpecMatch == InitMatch /\ [][NextMatch]_vars

\* std:value:merge, called by a script.
InitMerge ==
    MergeInit /\ LoaderIdle /\ ResolveIdle /\ StoreIdle /\ TraitsInit /\ PathInit /\ ArgsIdle /\ StdoutIdle /\ FoldIdle /\ LoggerIdle
    /\ ContentIdle /\ StoredIdle /\ DynamicIdle /\ ErrorIdle /\ MatchIdle

NextMerge == MergeNext

SpecMerge == InitMerge /\ [][NextMerge]_vars

\* The loader, with tasks that can be cancelled.
InitCancel == Init

NextCancel == LoaderNext \/ \E t \in Tasks : Cancel(t)

SpecCancel == InitCancel /\ [][NextCancel]_vars

\* Function calls with their arguments.
InitArgs ==
    ArgsInit /\ LoaderIdle /\ ResolveIdle /\ StoreIdle /\ TraitsInit /\ PathInit /\ StdoutIdle /\ FoldIdle /\ LoggerIdle
    /\ ContentIdle /\ StoredIdle /\ DynamicIdle /\ ErrorIdle /\ MatchIdle /\ MergeIdle

NextArgs == ArgsNext

SpecArgs == InitArgs /\ [][NextArgs]_vars

\* std:io:stdout values, evaluated by the tasks of the pool.
InitStdout ==
    StdoutInit /\ LoaderIdle /\ ResolveIdle /\ StoreIdle /\ TraitsInit /\ PathInit /\ FoldIdle /\ LoggerIdle
    /\ ContentIdle /\ StoredIdle /\ DynamicIdle /\ ErrorIdle /\ MatchIdle /\ MergeIdle
    /\ ArgsIdle

NextStdout == StdoutNext

SpecStdout == InitStdout /\ [][NextStdout]_vars

\* std:collection:fold, evaluated once.
InitFold ==
    FoldInit /\ LoaderIdle /\ ResolveIdle /\ StoreIdle /\ TraitsInit /\ PathInit /\ LoggerIdle
    /\ ContentIdle /\ StoredIdle /\ DynamicIdle /\ ErrorIdle /\ MatchIdle /\ MergeIdle
    /\ ArgsIdle /\ StdoutIdle

NextFold == FoldNext

SpecFold == InitFold /\ [][NextFold]_vars

\* The end of run(), with the pool's threads still logging.
InitLogger ==
    LoggerInit /\ LoaderIdle /\ ResolveIdle /\ StoreIdle /\ TraitsInit /\ PathInit
    /\ ContentIdle /\ StoredIdle /\ DynamicIdle /\ ErrorIdle /\ MatchIdle /\ MergeIdle
    /\ ArgsIdle /\ StdoutIdle /\ FoldIdle

NextLogger == LoggerNext

SpecLogger == InitLogger /\ [][NextLogger]_vars /\ LoggerFairness

(***************************************************************************)
(* Claims about the loader.                                                *)
(***************************************************************************)
AllReturned == \A t \in Tasks : stack[t] = <<>>

\* Frame j of task t is a call nested in the unfinished call of frame i.
Encloses(t, i, j) == i \in 1..Len(stack[t]) /\ j \in 1..Len(stack[t]) /\ i < j

\* C1: a load_script call for the path that an enclosing, unfinished call of
\* its chain is loading never gets past the cycle check: it returns the
\* "already loading" error and the script is not looked up, parsed or
\* evaluated again.
C1_NestedLoadOfLoadingPathRejected ==
    \A t \in Tasks : \A i, j \in 1..MaxDepth :
        (Encloses(t, i, j) /\ stack[t][j].path = canonicalize(stack[t][i].path))
            => stack[t][j].pc = "check"

\* C2: when every load_script call has returned (with a loaded value, an
\* error, a cached value or the cyclic-load error), the loading list is empty.
C2_LoadingEmptyAfterReturn == AllReturned => loading = <<>>

\* Every call has returned, after scripts a and b, which load each other, were
\* both evaluated, one to an error and one to a value.
C2_Witness ==
    /\ AllReturned
    /\ calls >= 2
    /\ evals["a"] >= 1
    /\ evals["b"] >= 1
    /\ body["a"] = "b"
    /\ body["b"] = "a"
    /\ load_cache["a"].kind = "error"
    /\ load_cache["b"].kind = "loaded"

\* C3: calls of several tasks for the same path never lead to the script being
\* parsed and evaluated by two of them: at most one evaluation per path.
C3_SingleEvaluationPerPath ==
    \A t1, t2 \in Tasks : \A i, j \in 1..MaxDepth :
        (/\ t1 # t2
         /\ i <= Len(stack[t1])
         /\ j <= Len(stack[t2])
         /\ stack[t1][i].pc = "eval"
         /\ stack[t2][j].pc = "eval")
            => canonicalize(stack[t1][i].path) # canonicalize(stack[t2][j].path)

\* C4: a call made when the cache already holds a value for its canonical
\* path returns that very value (no reset happens during a call).
C4_CachedValueReturned ==
    lastRet.seen # None => lastRet.value = lastRet.seen

\* C5: a nested load that reaches, through another spelling of its path, a
\* script that an enclosing call is loading never gets past the cycle check.
C5_CycleThroughOtherSpellingRejected ==
    \A t \in Tasks : \A i, j \in 1..MaxDepth :
        (/\ Encloses(t, i, j)
         /\ stack[t][j].path # canonicalize(stack[t][j].path)
         /\ canonicalize(stack[t][j].path) = canonicalize(stack[t][i].path))
            => stack[t][j].pc = "check"

\* An enclosing, unfinished call of the chain of frame j of task t is loading
\* the script that frame j asks for.
RealCycle(t, j) ==
    \E i \in 1..(j - 1) :
        /\ stack[t][i].pc = "eval"
        /\ canonicalize(stack[t][i].path) = canonicalize(stack[t][j].path)

\* C20: load_script reports "already loading" only for a real cycle: a call
\* that is at its cycle check and whose path no enclosing call of its own
\* chain is loading does not find the path in the loading list, whatever
\* other tasks are loading or have loaded.
C20_AlreadyLoadingOnlyForRealCycle ==
    \A t \in Tasks : \A j \in 1..MaxDepth :
        (/\ j = Len(stack[t])
         /\ stack[t][j].pc = "check"
         /\ ~RealCycle(t, j))
            => ~IsLoading(loading, stack[t][j].path)

\* The calls that have missed the cache for script c and have not stored
\* their result yet: the frames that are evaluating c.
Evaluating(c) ==
    {<<t, i>> \in Tasks \X (1..MaxDepth) :
        /\ i <= Len(stack[t])
        /\ stack[t][i].pc = "eval"
        /\ canonicalize(stack[t][i].path) = c}

\* The entries of the loading list that are script c.
Entries(c) == {i \in 1..Len(loading) : loading[i] = c}

\* C21: at every moment the loading list holds exactly the canonical paths
\* of the load_script calls that have missed the cache and have not yet
\* stored their result, one entry per such call: what a call removes on
\* completion is what it added.
C21_LoadingIsTheCallsInProgress ==
    \A c \in Scripts : Cardinality(Entries(c)) = Cardinality(Evaluating(c))

\* No call of task t is in progress: each has returned or was dropped.
Idle(t) == stack[t] = <<>>

\* C22: when a load_script call is dropped while suspended in the evaluation
\* of its script, the path it added is no longer in the loading list: once
\* no call is in progress any more, returned or dropped, no script is left in
\* the list, and a later load of it passes the cycle check.
C22_DroppedLoadLeavesNoEntry ==
    (\A t \in Tasks : Idle(t)) => \A c \in Scripts : ~IsLoading(loading, c)

(***************************************************************************)
(* Claims about script path resolution (under SpecResolve).                *)
(***************************************************************************)
\* Directory d holds a match for the name.
Hit(d) == script_path_exists(d, TRUE) # NoPath

\* The directory searched first holds a match (none when there is no current
\* directory to search).
FirstHit == working_dir # "nocwd" /\ Hit("first")

\* C6: resolve_script_path returns the match of the working directory (or of
\* the current directory when none is given) when there is one, otherwise
\* the match of the first load-path entry, in configured order, that has one,
\* otherwise None.
C6_ResolutionOrder ==
    rpc = "resolved" =>
        /\ FirstHit => resolved = script_path_exists("first", TRUE)
        /\ \A i \in 1..Len(load_path) :
              (/\ ~FirstHit
               /\ Hit(load_path[i])
               /\ \A j \in 1..(i - 1) : ~Hit(load_path[j]))
                  => resolved = script_path_exists(load_path[i], TRUE)
        /\ (~FirstHit /\ \A i \in 1..Len(load_path) : ~Hit(load_path[i]))
              => resolved = NoPath

\* No working directory is given, the current directory holds no match and
\* both load-path entries do: the first entry's match is returned.
C6_Witness ==
    /\ rpc = "resolved"
    /\ working_dir = "cwd"
    /\ ~Hit("first")
    /\ Hit("lp1")
    /\ Hit("lp2")
    /\ resolved.dir = "lp1"

\* The last kind of a chain: what descending through DIR_NAME entries reaches.
Reached(e) == IF e = <<>> THEN "none" ELSE e[Len(e)]

C8_ValueIdLocation ==
    vitem # NoItem =>
        /\ vitem.ok
        /\ vitem.sub = "-v"
        /\ vitem.d1 = SubSeq(vid, 1, 2)
        /\ vitem.d2 = SubSeq(vid, 3, 4)
        /\ vitem.item = SubSeq(vid, 5, HexDigits)

\* C9: after exists(), read() or read_existing() on an absent item, the item
\* is still absent: exists() returns false.
C9_LookupLeavesItemAbsent ==
    (lastOp.op \in {"exists", "read", "read_existing"} /\ lastOp.absent)
        => files[lastOp.item] = "absent"

C27_IntoOwnTypeIsIdentity ==
    lastInto.from.type = lastInto.to => lastInto.out = lastInto.from

(***************************************************************************)
(* Claims about the path functions (under SpecPath).                       *)
(***************************************************************************)
\* C11: any two values with equal identity evaluate to equal content, the
\* values built by path new, join, split and relative included.
C11_EqualIdentityEqualContent ==
    \A v, w \in pvalues : v.id = w.id => v.content = w.content

(***************************************************************************)
(* Claims about value_by_content (under SpecContent).                      *)
(***************************************************************************)
\* Values v and w have equal evaluated contents: the same type and data and,
\* entry by entry, elements of equal contents under the same keys.
RECURSIVE ContentEq(_, _)
ContentEq(v, w) ==
    /\ v.type = w.type
    /\ v.content = w.content
    /\ Len(v.elems) = Len(w.elems)
    /\ \A i \in 1..Len(v.elems) : ContentEq(v.elems[i], w.elems[i])

\* C12: for two values of one type with the trait and equal contents, the
\* values returned have equal identities whatever the identities of the
\* inputs, each has the content of its input and, for Arrays and Maps, the
\* same length, order and keys with every element identified by its content.
C12_ByContentIdentity ==
    (/\ cout[1] # NotRun
     /\ cout[2] # NotRun
     /\ cout[1].type # "Error"
     /\ ContentEq(cin[1], cin[2]))
        => /\ cout[1].id = cout[2].id
           /\ ContentEq(cout[1], cin[1])
           /\ ContentEq(cout[2], cin[2])
           /\ \A i \in 1..Len(cin[1].elems) : cout[1].elems[i].id = cout[2].elems[i].id

\* Two arrays of two strings each, equal in content and different in the
\* identities of their elements, were given one identity.
C12_Witness ==
    /\ cin[1].type = "Array"
    /\ Len(cin[1].elems) = 2
    /\ ContentEq(cin[1], cin[2])
    /\ cin[1].elems[1].id # cin[2].elems[1].id
    /\ cin[1].elems[2].content # cin[1].elems[1].content
    /\ cout[1].type = "Array"
    /\ cout[2] # NotRun
    /\ cout[1].id = cout[2].id

(***************************************************************************)
(* Claims about Stored for Map (under SpecStored).                         *)
(***************************************************************************)
\* C13: get applied to what put wrote returns a Map with the same entries:
\* as many, and for every entry a key and a value of the same identities.
C13_MapRoundTrip ==
    sgot.ok =>
        /\ Cardinality(sgot.entries) = Cardinality(smap)
        /\ {<<e.k.id, e.v.id>> : e \in sgot.entries} = {<<e.k.id, e.v.id>> : e \in smap}
        /\ sgot.entries = smap

\* A map of three entries, two of them with the same value and one whose
\* value is also a key, was put and read back.
C13_Witness ==
    /\ sgot.ok
    /\ Cardinality(smap) = 3
    /\ \E e, f \in smap : e # f /\ e.v = f.v
    /\ \E e, f \in smap : e # f /\ e.v = f.k

(***************************************************************************)
(* Claims about dynamic bindings (under SpecDynamic).                      *)
(***************************************************************************)
\* The evals enclosing the last dynamic:get that bind its key.
BindersOfGet == {i \in 1..Len(dget.at) : dget.at[i][dget.key] # Unbound}

C15_InnermostBindingOrUnset ==
    dget # NoGet =>
        dget.value =
            IF BindersOfGet # {}
            THEN dget.at[CHOOSE i \in BindersOfGet : \A j \in BindersOfGet : j <= i][dget.key]
            ELSE IF dparent[dget.key] # Unbound THEN dparent[dget.key] ELSE UnsetValue

\* Sibling 1 read k2, which nothing binds, as Unset inside an eval binding
\* only k1; that eval has completed since.
C15_Witness ==
    /\ dget.sib = 1
    /\ dget.key = "k2"
    /\ dget.value = UnsetValue
    /\ Len(dget.at) = 1
    /\ dget.at[1]["k1"] # Unbound
    /\ dstack[1] = <<>>

(***************************************************************************)
(* Claims about the display of errors (under SpecError).                   *)
(***************************************************************************)
\* The chains of contexts of the root errors of e, each from the outermost
\* context to the innermost, in the order of the root errors.
RECURSIVE ErrorChains(_, _)
ErrorChains(e, chain) ==
    IF e.kind = "root" THEN <<chain>>
    ELSE IF e.kind = "context" THEN ErrorChains(e.inner[1], Append(chain, e.text))
    ELSE ErrorChains(e.inner[1], chain) \o ErrorChains(e.inner[2], chain)

\* How many of len contexts are written under the configured limit.
Written(len) == IF ~elimit.some \/ elimit.n >= len THEN len ELSE elimit.n

\* The lines of eout that start a root error.
ErrorLines == {i \in 1..Len(eout) : eout[i].kind = "error"}

\* The texts of the note lines written for the root error of line i.
NotesAfter(i) ==
    LET end == CHOOSE j \in (i + 1)..(Len(eout) + 1) :
                  /\ j = Len(eout) + 1 \/ eout[j].kind # "note"
                  /\ \A k \in (i + 1)..(j - 1) : eout[k].kind = "note"
    IN [k \in 1..(end - i - 1) |-> eout[i + k].text]

\* The chain of the root error of line i.
ChainOf(i) == ErrorChains(eerr, <<>>)[Cardinality({j \in ErrorLines : j <= i})]

\* C16 as stated: for each root error the note lines are contexts of its
\* chain in chain order, outermost first, all of them without a limit and at
\* most the limit with one.
C16_NotesOutermostFirst ==
    eout # <<>> =>
        \A i \in ErrorLines :
            /\ \E k \in 1..(Len(ChainOf(i)) + 1) :
                  /\ k + Len(NotesAfter(i)) - 1 <= Len(ChainOf(i))
                  /\ NotesAfter(i) = SubSeq(ChainOf(i), k, k + Len(NotesAfter(i)) - 1)
            /\ ~elimit.some => NotesAfter(i) = ChainOf(i)
            /\ elimit.some => Len(NotesAfter(i)) <= elimit.n

\* C16, amended: for each root error the note lines are the contexts of its
\* chain from the innermost to the outermost, all of them without a limit;
\* with a limit they are the innermost ones, at most the limit, followed by
\* a line that counts the omitted ones when there are more.
C16_NotesInnermostFirst ==
    eout # <<>> =>
        /\ Cardinality(ErrorLines) = Len(ErrorChains(eerr, <<>>))
        /\ \A i \in ErrorLines :
              LET n == Written(Len(ChainOf(i))) IN
              /\ NotesAfter(i) = SubSeq(Reverse(ChainOf(i)), 1, n)
              /\ elimit.some => Len(NotesAfter(i)) <= elimit.n
              /\ (elimit.some /\ elimit.n < Len(ChainOf(i)))
                    <=> (/\ i + n + 1 <= Len(eout)
                         /\ eout[i + n + 1] = OmittingLine(Len(ChainOf(i)) - elimit.n))

\* An error with context c1 around context c2 was displayed with the limit 1:
\* the note is c2, and one frame is omitted.
C16_Witness ==
    /\ eerr = [kind |-> "context", text |-> "c1", inner |->
                 <<[kind |-> "context", text |-> "c2", inner |-> <<RootError>>]>>]
    /\ elimit = [some |-> TRUE, n |-> 1]
    /\ eout = <<ErrorLine(RootError), NoteLine("c2"), OmittingLine(1)>>

(***************************************************************************)
(* Claims about std:match.                                                 *)
(***************************************************************************)
\* The indices of the cases whose bind with the value is not an Error.
BoundCases == {i \in DOMAIN mbindings : bind(mbindings[i], mvalue).type # "Error"}

FirstBound == CHOOSE i \in BoundCases : \A j \in BoundCases : i <= j

UpTo(n) == [i \in 1..n |-> i]

\* C17: match returns the result of the first binding, in array order, whose
\* bind with the value is not an Error, and binds no later binding; when
\* every bind gives an Error the match fails, with the value's own error
\* when the value is an Error and with "no bindings matched the value"
\* otherwise.
C17_FirstBoundElseFails ==
    mret # NoMatchRet =>
        IF BoundCases # {}
        THEN /\ mret = [kind |-> "value", case |-> FirstBound, error |-> "none"]
             /\ mtried = UpTo(FirstBound)
        ELSE /\ mret.kind = "error"
             /\ mtried = UpTo(Len(mbindings))
             /\ mret.error = IF mvalue = "Error"
                             THEN "the value's error"
                             ELSE "no bindings matched the value"

\* A match of three cases returned the second: the first did not bind, the
\* third would have bound too and was not tried.
C17_Witness ==
    /\ Len(mbindings) = 3
    /\ ~mbindings[1].binds /\ mbindings[2].binds /\ mbindings[3].binds
    /\ mret.kind = "value" /\ mret.case = 2
    /\ mtried = <<1, 2>>

\* C18: when the first case whose pattern binds the value has a body that
\* fails, the match fails: the value it returns is that body, which gives an
\* error when evaluated, and no later case is taken.
C18_FailingBodyFailsMatch ==
    \A i \in DOMAIN mbindings :
        ( /\ mret # NoMatchRet
          /\ mbindings[i].binds
          /\ \A j \in 1..(i - 1) : ~mbindings[j].binds
          /\ mbindings[i].body \in {"throws", "bind fails"} )
        => /\ mret.kind = "value" /\ mret.case = i
           /\ meval \in {NotEvaluated, "error"}

\* The first case binds and throws, the second would bind and give a value:
\* the evaluated match is an error.
C18_Witness ==
    /\ Len(mbindings) >= 2
    /\ mbindings[1] = [binds |-> TRUE, body |-> "throws"]
    /\ mbindings[2] = [binds |-> TRUE, body |-> "value"]
    /\ mret.case = 1
    /\ meval = "error"

(***************************************************************************)
(* Claims about std:value:merge.                                           *)
(***************************************************************************)
\* r is what the merge of a and b is to be, with array-merge when am.
RECURSIVE IsMergeOf(_, _, _, _)
IsMergeOf(r, a, b, am) ==
    IF a.type = "Map" /\ b.type = "Map"
    THEN /\ r.type = "Map"
         /\ KeysOf(r) = KeysOf(a) \cup KeysOf(b)
         /\ \A k \in KeysOf(a) \ KeysOf(b) : r.elems[k] = a.elems[k]
         /\ \A k \in KeysOf(b) \ KeysOf(a) : r.elems[k] = b.elems[k]
         /\ \A k \in KeysOf(a) \cap KeysOf(b) :
                IsMergeOf(r.elems[k], a.elems[k], b.elems[k], am)
    ELSE IF a.type = "Array" /\ b.type = "Array"
    THEN /\ r.type = "Array"
         /\ IF ~am
            THEN r.elems = a.elems \o b.elems
            ELSE LET longer == IF Len(a.elems) >= Len(b.elems) THEN a.elems ELSE b.elems
                 IN  /\ Len(r.elems) = Len(longer)
                     /\ \A i \in 1..Len(r.elems) :
                            IF i <= Len(a.elems) /\ i <= Len(b.elems)
                            THEN IsMergeOf(r.elems[i], a.elems[i], b.elems[i], am)
                            ELSE r.elems[i] = longer[i]
    ELSE r = b

\* C19: merge a b of two Maps has the union of the keys, a key of one side
\* only keeps that side's value and a key of both has the deep merge; of two
\* Arrays it is a's elements followed by b's, or with array-merge the
\* element-wise deep merges followed by the unmatched tail of the longer
\* array; in every other case it is b.
C19_MergeSemantics ==
    mgout # NotMerged => IsMergeOf(mgout, mga, mgb, mgflag)

\* An array-merge of a longer array a with a shorter b whose first elements
\* are maps with different keys: the first element is the union of the two
\* maps and a's tail is kept.
C19_Witness ==
    /\ mgflag
    /\ mga = ArrayOf(<<MapOf(<<StringOf("x"), AbsentEntry>>), UnitOf>>)
    /\ mgb = ArrayOf(<<MapOf(<<AbsentEntry, StringOf("x")>>)>>)
    /\ mgout = ArrayOf(<<MapOf(<<StringOf("x"), StringOf("x")>>), UnitOf>>)

(***************************************************************************)
(* Claims about function arguments (under SpecArgs).                       *)
(***************************************************************************)
\* An error for every argument the call was made with.
ErrorPerArgument ==
    {PositionalAt(i) : i \in 1..Len(apassed.positional)}
    \cup {KeyedAt(k) : k \in apassed.non_positional}

\* C23: unused_arguments returns Ok exactly when no positional and no keyed
\* argument remains, otherwise one aggregated error holding an error for
\* every unconsumed argument of both kinds; no argument remains afterwards,
\* and the assertion made when the FunctionArguments is dropped holds.
C23_UnusedArguments ==
    aop = "unused_arguments" =>
        /\ aret.state = "Ok" <=> (apassed.positional = <<>> /\ apassed.non_positional = {})
        /\ aret.state = "Err" => aret.errors = ErrorPerArgument
        /\ aargs.positional = <<>>
        /\ aargs.non_positional = {}
        /\ adrop # "assertion failed"

\* unused_arguments was called with two positional and one keyed argument
\* left, gave the three errors, and the arguments were dropped.
C23_Witness ==
    /\ aop = "unused_arguments"
    /\ Len(apassed.positional) = 2
    /\ apassed.non_positional = {"k1"}
    /\ aret = Err({PositionalAt(1), PositionalAt(2), KeyedAt("k1")})
    /\ adrop = "dropped"

\* C24: a call of the std path module through apply_value, with any function
\* name and any arguments, either consumes all of its positional and keyed
\* arguments or returns an error after which the caller clears them: the
\* assertion in FunctionArguments::drop never fails.
C24_DropAssertionHolds ==
    aop = "apply_value" =>
        /\ aargs.positional = <<>>
        /\ aargs.non_positional = {}
        /\ adrop # "assertion failed"

(***************************************************************************)
(* Claims about std:io:stdout (under SpecStdout).                          *)
(***************************************************************************)
\* The stdout values that are copying their data to standard output.
Copying == {w \in Writers : wpc[w] = "copy"}

\* The stdout values between their pause of the log and its end.
Pausing == {w \in Writers : wpc[w] \in {"copy", "resume"}}

\* C25: at most one std:io:stdout value copies data to standard output at
\* any time; logging is paused for the whole of each copy, and resumed when
\* the copy has ended, with success or with an error: it is paused exactly
\* while a copy is between its pause and its end.
C25_OneCopyWithLoggingPaused ==
    /\ Cardinality(Copying) <= 1
    /\ \A w \in Copying : log_paused > 0
    /\ Pausing = {} => log_paused = 0

\* A copy has failed and logging is resumed, its value still holding the
\* mutex, while another value waits for the mutex and the copy of a third
\* has succeeded before.
C25_Witness ==
    /\ \E w \in Writers :
          wpc[w] = "unlock" /\ wres[w] = "Err" /\ stdout_mutex = w /\ log_paused = 0
    /\ \E w \in Writers : wpc[w] = "lock"
    /\ \E w \in Writers : wpc[w] = "done" /\ wres[w] = "Ok"

(***************************************************************************)
(* Claims about std:collection:fold (under SpecFold).                      *)
(***************************************************************************)
\* The number of elements f is to be called for: up to the first element for
\* which the call fails, all of them when none does.
CallsDue ==
    IF ffails = {}
    THEN Len(fvals)
    ELSE CHOOSE i \in ffails : \A j \in ffails : i <= j

\* C26: fold f base [v1..vn] calls f once per element in array order, each
\* call with the result of the previous call (the base for the first) and
\* the element, and returns the result of the last call (the base for an
\* empty array); when a call fails, f is not called for any later element
\* and the fold fails with that error.
C26_FoldCallsInOrder ==
    fret # NoFoldRet =>
        /\ fcalls = [i \in 1..CallsDue |->
                        [acc |-> SubSeq(fvals, 1, i - 1), elem |-> fvals[i]]]
        /\ fret = IF ffails = {} THEN FoldOk(fvals) ELSE FoldErr(CallsDue)

\* A fold over three elements whose second call failed: f was called twice
\* and the fold failed with the error of the second call.
C26_Witness ==
    /\ Len(fvals) = 3
    /\ ffails = {2, 3}
    /\ Len(fcalls) = 2
    /\ fcalls[2] = [acc |-> <<fvals[1]>>, elem |-> fvals[2]]
    /\ fret = FoldErr(2)

(***************************************************************************)
(* Claims about the logger at the end of run() (under SpecLogger).         *)
(***************************************************************************)
\* The logging calls in progress.
InCall == {t \in LogThreads : lthread[t] # "idle"}

\* After the logger is dropped the terminal only receives the error output.
NothingLoggedAfterDrop ==
    \A i, j \in 1..Len(lout) :
        (i < j /\ lout[i] = "logger dropped") => lout[j] = "error output"

\* Every call in progress holds one strong reference, released at its end,
\* and none is in progress once the logger is dropped.
CallsHoldTheLogger ==
    IF lalive
    THEN lstrong = 1 + Cardinality(InCall)
    ELSE lstrong = 0 /\ InCall = {}

====
